---- MODULE Spec2Model ----
(***************************************************************************)
(* Model of the Holochain HTTP gateway: the request pipeline               *)
(* (routes/zome_call.rs), application selection (app_selection.rs), the    *)
(* configuration policy (config.rs) and the application connection pool    *)
(* (holochain/app_conn_pool.rs), run by concurrent tasks against a         *)
(* Conductor that may shut down, restart and drop connections.             *)
(***************************************************************************)
EXTENDS Integers, Sequences, FiniteSets, TLC

\* ------------------------------------------------------------------------
\* Bounds of the model
\* ------------------------------------------------------------------------
MaxOps == 2
MaxSeqOps == 3
MaxConns == 3
MaxEpoch == 2
MaxClock == 2
MaxAppConnections == 2
MaxAdminOps == 3
MaxResolveOps == 2
MaxApps == 2
MaxSegments == 2
MaxRaceOps == 3
MaxPortOps == 3
MaxInterfaces == 2
MaxNesting == 8
MaxLegacyTries == 4

\* Task 1 serves HTTP requests, and the counters of its current call are
\* kept; task 2 uses the pool's public operations directly.
Tasks == {1, 2}
HttpTasks == {1}
DirectTasks == {2}
Observed == CHOOSE t \in HttpTasks : TRUE

\* ------------------------------------------------------------------------
\* Configuration (config.rs)
\* ------------------------------------------------------------------------
\* A cell of an AppInfo: CellInfo::Provisioned, or another kind of cell
\* (cloned, stem), with the DNA hash of its cell id
Provisioned(dna) == [kind |-> "Provisioned", dna |-> dna]
Cloned(dna) == [kind |-> "Cloned", dna |-> dna]

\* Applications installed on the Conductor, as list_apps returns them:
\* installed_app_id and the cells of cell_info.
InstalledApps ==
    << [installed_app_id |-> "app_1", cell_info |-> {Provisioned("d1")}],
       [installed_app_id |-> "app_2",
        cell_info |-> {Provisioned("d1"), Provisioned("d3")}],
       [installed_app_id |-> "app_3",
        cell_info |-> {Provisioned("d2"), Cloned("d1")}] >>

AppIds == {"app_1", "app_2", "app_3", "app_x"}
Dnas == {"d1", "d2"}
ZomeFns == {<<"zome_name", "fn_name">>, <<"zome_name", "unauth_fn">>}

\* Configuration.allowed_app_ids
allowed_app_ids == {"app_1", "app_2"}

\* Configuration.allowed_fns: AllowedFns::All or Restricted(set of pairs).  Every id
\* of allowed_app_ids has an entry (try_new checks it); an entry may exist
\* for an id that is not in allowed_app_ids.
allowed_fns ==
    [a \in {"app_1", "app_2", "app_3"} |->
        IF a = "app_1" THEN [all |-> FALSE, fns |-> {<<"zome_name", "fn_name">>}]
        ELSE [all |-> TRUE, fns |-> {}]]

\* Applications the pool can be asked to connect (those with an allowed_fns
\* entry: attempt_connect_app_ws indexes allowed_fns directly).
PoolApps == DOMAIN allowed_fns

\* attempt_connect_app_ws: the provisioned cells of the app's cached
\* app_info, numbered from 1
ProvisionedCells(app) == IF app = "app_2" THEN {1, 2} ELSE {1}

\* Variant: only the first provisioned cell is authorized
CellsToAuthorize_first(app) == {1}

\* attempt_connect_app_ws: for cell_id in cells
CellsToAuthorize(app) == ProvisionedCells(app)

\* Variant: a restricted list is granted as an empty list
granted_functions_empty(app) == [all |-> allowed_fns[app].all, fns |-> {}]

\* attempt_connect_app_ws: GrantedFunctions::All or Listed(the pairs of
\* allowed_fns[installed_app_id])
granted_functions(app) == allowed_fns[app]

\* Variant: AllowedFns::All is treated like an empty list
IsFunctionAllowed_listed(fns, app_id, zome_name, fn_name) ==
    IF app_id \notin DOMAIN fns THEN FALSE
    ELSE <<zome_name, fn_name>> \in fns[app_id].fns

\* Configuration::is_function_allowed, fns being the allowed_fns of the
\* Configuration: get_allowed_functions(app_id) is None, or All, or
\* Restricted(zome_fns)
IsFunctionAllowed(fns, app_id, zome_name, fn_name) ==
    IF app_id \notin DOMAIN fns THEN FALSE
    ELSE IF fns[app_id].all THEN TRUE
    ELSE <<zome_name, fn_name>> \in fns[app_id].fns

\* Configuration::is_function_allowed of the running gateway
is_function_allowed(app_id, zome_name, fn_name) ==
    IsFunctionAllowed(allowed_fns, app_id, zome_name, fn_name)

\* ------------------------------------------------------------------------
\* Application selection (app_selection.rs)
\* ------------------------------------------------------------------------
\* choose_unique_app, the closure of the filter: the app has the id and a
\* provisioned cell of the DNA
AppMatches(a, dna_hash, coordinator_identifier) ==
    /\ a.installed_app_id = coordinator_identifier
    /\ \E cell \in a.cell_info :
          cell.kind = "Provisioned" /\ cell.dna = dna_hash

RECURSIVE FilterApps(_, _, _)
FilterApps(dna_hash, coordinator_identifier, apps) ==
    IF apps = << >> THEN << >>
    ELSE LET a == Head(apps)
             rest == FilterApps(dna_hash, coordinator_identifier, Tail(apps))
         IN IF AppMatches(a, dna_hash, coordinator_identifier)
            THEN <<a>> \o rest ELSE rest

NoAppInfo == [installed_app_id |-> "none", cell_info |-> {}]

\* Variant: several matching apps count as none
choose_unique_app_none(dna_hash, coordinator_identifier, apps) ==
    LET found == FilterApps(dna_hash, coordinator_identifier, apps)
    IN IF Len(found) # 1
       THEN [err |-> "NotInstalled", app |-> "none", info |-> NoAppInfo]
       ELSE [err |-> "Ok", app |-> found[1].installed_app_id, info |-> found[1]]

\* Variant: the first matching app is taken, whatever follows it
choose_unique_app_first(dna_hash, coordinator_identifier, apps) ==
    LET found == FilterApps(dna_hash, coordinator_identifier, apps)
    IN IF Len(found) = 0
       THEN [err |-> "NotInstalled", app |-> "none", info |-> NoAppInfo]
       ELSE [err |-> "Ok", app |-> found[1].installed_app_id, info |-> found[1]]

\* choose_unique_app: the single matching app, or an error.
choose_unique_app(dna_hash, coordinator_identifier, apps) ==
    LET found == FilterApps(dna_hash, coordinator_identifier, apps)
    IN IF Len(found) = 0
       THEN [err |-> "NotInstalled", app |-> "none", info |-> NoAppInfo]
       ELSE IF Len(found) > 1
       THEN [err |-> "MultipleMatching", app |-> "none", info |-> NoAppInfo]
       ELSE [err |-> "Ok", app |-> found[1].installed_app_id, info |-> found[1]]

\* Variant: every resolved app passes the allow-list
is_app_allowed_open(app_id) == TRUE

\* try_get_valid_app: allowed_apps.contains(&app_info.installed_app_id)
is_app_allowed(app_id) == app_id \in allowed_app_ids

\* ------------------------------------------------------------------------
\* Pool helpers (holochain/app_conn_pool.rs)
\* ------------------------------------------------------------------------
\* Variant: one more iteration of the loop
CallAttempts_four == 3 + 1

\* AppConnPool::call: for _ in 0..3
CallAttempts == 3

\* Variant: a successful execution starts the next iteration
ExecuteArm_retry_ok(res) ==
    IF res = "Ok" THEN "continue"
    ELSE IF res = "WsError" THEN "remove_continue"
    ELSE "return"

\* Variant: every error of execute is handled like a websocket error
ExecuteArm_retry_other(res) ==
    IF res = "Ok" THEN "return"
    ELSE "remove_continue"

\* AppConnPool::call: the match on execute(app_ws).await
ExecuteArm(res) ==
    IF res = "Ok" THEN "return"
    ELSE IF res = "WsError" THEN "remove_continue"
    ELSE "return"

\* AppConnPool::call: the match on get_or_connect_app_client(..).await
ConnectArm(err) ==
    IF err = "UpstreamUnavailable" THEN "continue" ELSE "return"

\* Variant: the lookup under the read guard never finds the entry
ReadHit_never(cl, app) == FALSE

\* get_or_connect_app_client: app_clients.get(&installed_app_id) is Some
ReadHit(cl, app) == app \in DOMAIN cl

\* Variant: the entry is not checked again under the write guard
EntryOccupied_never(cl, app) == FALSE

\* hash_map::Entry::Occupied / Vacant under the write guard
EntryOccupied(cl, app) == app \in DOMAIN cl

\* Variant: off by one in the size check
NeedsEviction_late(cl, max) == Cardinality(DOMAIN cl) > max + 1

\* app_client_lock.len() > max_app_connections
NeedsEviction(cl, max) == Cardinality(DOMAIN cl) > max

\* Variant: max_by_key instead of min_by_key
OldestApps_newest(cl) ==
    {a \in DOMAIN cl : \A b \in DOMAIN cl : cl[a].opened_at >= cl[b].opened_at}

\* min_by_key(opened_at) over the HashMap: an entry with the smallest
\* opened_at; among equal keys the HashMap's iteration order decides.
OldestApps(cl) ==
    {a \in DOMAIN cl : \A b \in DOMAIN cl : cl[a].opened_at <= cl[b].opened_at}

\* Variant: the cached port survives a failed handshake
PortAfterFailedConnect_keep(port) == port

\* attempt_connect_app_ws: *self.cached_app_port.write() = None when the
\* handshake fails
PortAfterFailedConnect(port) == 0

\* Variant: the removal is lost
MapRemove_keep(cl, app) == cl

\* HashMap::remove
MapRemove(cl, app) == [x \in (DOMAIN cl) \ {app} |-> cl[x]]

\* HashMap entry insert
MapInsert(cl, app, v) ==
    [x \in (DOMAIN cl) \cup {app} |-> IF x = app THEN v ELSE cl[x]]

\* ------------------------------------------------------------------------
\* State
\* ------------------------------------------------------------------------
VARIABLES
    tasks,                \* per task: position, arguments and locals
    obs,                  \* what the observed task's current call has done
    ops,                  \* operations that may still be started
    app_clients,          \* AppConnPool.app_clients: app id -> [id, opened_at]
    writer,               \* task holding the write guard of app_clients, 0 if none
    ext_read,             \* a caller of get_inner_pool() holds a read guard
    cached_app_port,      \* AppConnPool.cached_app_port, 0 = None
    max_app_connections,  \* Configuration.max_app_connections
    app_info_cache,       \* AppInfoCache
    up,                   \* the Conductor is running
    epoch,                \* number of Conductor starts; a port is its epoch
    iface_port,           \* port of the app interface allowing hc-http-gw, 0 if none
    live,                 \* ids of the app websockets that are still usable
    nextId,               \* id of the next app websocket
    now,                  \* Timestamp::now()
    failed,               \* connections on which a call failed at transport level
    credentials,          \* signing credentials the Conductor has authorized:
                          \* [conn, cell, functions]
    connection_handle,    \* AdminConn.connection_handle: id of the AdminWebsocket
    admin_calls,          \* per caller of AdminConn::call: position and locals
    admin_ops,            \* AdminConn::call invocations that may still start
    admin_opened,         \* admin websockets opened so far: admin_opened[i] is
                          \* the connection whose failure made a caller open i
    admin_alive,          \* ids of the admin websockets that are still usable
    admin_transport_failed, \* some call has ended with a transport failure
    conductor_apps,       \* the running apps of the Conductor (list_apps)
    resolve,              \* try_get_valid_app: arguments, position, result
    resolve_ops,          \* try_get_valid_app invocations that may still start
    cache_read,           \* a holder of the AppInfoCache keeps a read guard
    request,              \* one HTTP request: its inputs, the stages run, the response
    configuration,        \* Configuration::try_new: arguments, result, a query on it
    app_interfaces,       \* the Conductor's app interfaces (list_app_interfaces)
    connect,              \* a run of connection establishments and what it did
    transcode             \* one payload or response and what the transcoding made of it

vars == << tasks, obs, ops, app_clients, writer, ext_read, cached_app_port,
           max_app_connections, app_info_cache, up, epoch, iface_port, live,
           nextId, now, failed, credentials, connection_handle, admin_calls,
           admin_ops, admin_opened, admin_alive, admin_transport_failed,
           conductor_apps, resolve, resolve_ops, cache_read, request,
           configuration, app_interfaces, connect, transcode >>

requestVars == << request >>

configVars == << configuration >>

portVars == << app_interfaces, connect >>

transcodeVars == << transcode >>

selectVars == << conductor_apps, resolve, resolve_ops, cache_read >>

adminVars == << connection_handle, admin_calls, admin_ops, admin_opened,
                admin_alive, admin_transport_failed >>

poolVars == << tasks, obs, ops, app_clients, writer, ext_read, cached_app_port,
               max_app_connections, app_info_cache, epoch, iface_port, live,
               nextId, now, failed, credentials >>

portRest == << tasks, obs, ops, app_clients, writer, ext_read,
               max_app_connections, app_info_cache, up, epoch, iface_port,
               live, nextId, now, failed, credentials, adminVars, selectVars,
               requestVars, configVars >>

NoEntries == [x \in {} |-> [id |-> 0, opened_at |-> 0]]

Idle ==
    [pc |-> "idle", op |-> "none", app |-> "none", dna |-> "none",
     zf |-> <<"none", "none">>, attempt |-> 0, conn |-> 0, port |-> 0,
     cell |-> 0, result |-> "none"]

\* nGet, nF: calls of get_or_connect_app_client and of execute; nOk, nWs:
\* executions that returned Ok / a websocket error; fresh: 0, or the id of
\* the next websocket at the moment the first execution failed on an
\* unusable websocket while the Conductor ran, as long as the Conductor has
\* answered every operation since; held: the read guard of get_inner_pool()
\* has been held by its caller ever since the call began.
NoObs ==
    [nGet |-> 0, nF |-> 0, nOk |-> 0, nWs |-> 0, fresh |-> 0, held |-> FALSE]

InitState ==
    /\ tasks = [t \in Tasks |-> Idle]
    /\ obs = NoObs
    /\ app_clients = NoEntries
    /\ writer = 0
    /\ ext_read = FALSE
    /\ cached_app_port = 0
    /\ max_app_connections \in 0..MaxAppConnections
    /\ app_info_cache = << >>
    /\ up = TRUE
    /\ epoch = 1
    /\ iface_port \in {0, 1}
    /\ live = {}
    /\ nextId = 1
    /\ now = 0
    /\ failed = {}
    /\ credentials = {}

\* Callers of AdminConn::call (clones of the AdminConn share the slot)
AdminCallers == {1, 2}

\* Locals of one AdminConn::call: connection is the clone taken from the
\* slot, new_conn the websocket reconnect() has opened, current_retries
\* reconnect's counter; nF and nConnect count the invocations of f and of
\* AdminWebsocket::connect; first and second are what f returned; reachable
\* tells that the Conductor ran when the call began and that no websocket
\* has been lost since; after_failure that an earlier call had ended with a
\* transport failure when this one began; slot is connection_handle as the
\* call found it.
AdminIdle ==
    [pc |-> "idle", connection |-> 0, new_conn |-> 0, current_retries |-> 0,
     nF |-> 0, nConnect |-> 0, first |-> "none", second |-> "none",
     reachable |-> FALSE, after_failure |-> FALSE, slot |-> 0,
     result |-> [kind |-> "none", inner |-> "none"]]

\* AdminConn::connect has succeeded: websocket 1 is in the slot
AdminInitState ==
    /\ connection_handle = 1
    /\ admin_calls = [c \in AdminCallers |-> AdminIdle]
    /\ admin_opened = << 0 >>
    /\ admin_alive = {1}
    /\ admin_transport_failed = FALSE

\* Locals of try_get_valid_app: searched is the list the result was chosen
\* from (the last list searched); cache_before the cached list the call
\* found and cached_matches the number of its apps that match the request;
\* nListApps counts the list_apps calls, list_ok tells that list_apps
\* answered and new_installed_apps is its answer (empty after an error);
\* wrote that the call has taken the write guard of the cache; held that a
\* read guard of the cache has been held by someone else ever since the call
\* began.
ResolveIdle ==
    [pc |-> "idle", dna_hash |-> "none", coordinator_identifier |-> "none",
     searched |-> << >>, err |-> "none", app_info |-> NoAppInfo,
     cache_before |-> << >>, cached_matches |-> 0, nListApps |-> 0,
     list_ok |-> FALSE, new_installed_apps |-> << >>, wrote |-> FALSE,
     held |-> FALSE]

\* No HTTP request is being followed stage by stage
RequestIdle == [pc |-> "idle"]

\* The gateway runs with the Configuration of allowed_app_ids and
\* allowed_fns; try_new is not being followed
ConfigIdle == [pc |-> "idle"]

\* No connection establishment is followed
ConnectIdle == [pc |-> "off"]

\* Nothing is transcoded
TranscodeIdle == [pc |-> "off"]

SelectInitState ==
    /\ conductor_apps = InstalledApps
    /\ resolve = ResolveIdle
    /\ resolve_ops = 0
    /\ cache_read = FALSE
    /\ request = RequestIdle
    /\ configuration = ConfigIdle
    /\ app_interfaces = << >>
    /\ connect = ConnectIdle
    /\ transcode = TranscodeIdle

\* Concurrent requests and direct pool operations
Init ==
    /\ InitState
    /\ ops = MaxOps
    /\ AdminInitState
    /\ admin_ops = 0
    /\ SelectInitState

\* A longer run of one task that uses the pool directly
InitSeq ==
    /\ InitState
    /\ ops = MaxSeqOps
    /\ AdminInitState
    /\ admin_ops = 0
    /\ SelectInitState

\* Concurrent callers of AdminConn::call; the pool is not used
InitAdmin ==
    /\ InitState
    /\ max_app_connections = MaxAppConnections
    /\ iface_port = 0
    /\ ops = 0
    /\ AdminInitState
    /\ admin_ops = MaxAdminOps
    /\ SelectInitState

\* Outcomes of one AdminCall operation (list_app_interfaces,
\* attach_app_interface, issue_app_auth_token, authorize_signing_credentials,
\* list_apps): success or a protocol error while the Conductor runs,
\* UpstreamUnavailable or a websocket error while it does not.
AdminResults ==
    IF up THEN {"Ok", "OtherError"} ELSE {"UpstreamUnavailable", "WsError"}

\* Outcomes of execute(app_ws): a usable websocket answers, returns a
\* protocol error or times out; an unusable one fails at transport level.
ExecuteResults(c) ==
    IF c \in live /\ up THEN {"Ok", "OtherError", "WsError"} ELSE {"WsError"}

\* The websockets some task or the pool still holds; the others are closed
\* when their last clone is dropped.
Refs(tks, cl) == {tks[t].conn : t \in Tasks} \cup {cl[a].id : a \in DOMAIN cl}

CollectAll(rawLive, rawFailed, rawCredentials) ==
    /\ live' = rawLive \cap Refs(tasks', app_clients')
    /\ failed' = rawFailed \cap Refs(tasks', app_clients')
    /\ credentials' =
          {cr \in rawCredentials : cr.conn \in Refs(tasks', app_clients')}
    /\ UNCHANGED << adminVars, selectVars,
                    requestVars, configVars, portVars, transcodeVars >>

Collect(rawLive, rawFailed) == CollectAll(rawLive, rawFailed, credentials)

\* ------------------------------------------------------------------------
\* AppConnPool::call, the loop around get_or_connect_app_client
\* ------------------------------------------------------------------------
Done(tk, res) == [tk EXCEPT !.pc = "done", !.result = res, !.port = 0, !.dna = "none"]

\* `continue`: the next iteration of for _ in 0..3, or the fall-through
NextAttempt(tk) ==
    IF tk.attempt + 1 < CallAttempts
    THEN [tk EXCEPT !.pc = "gc_read", !.attempt = @ + 1, !.conn = 0, !.port = 0]
    ELSE [Done(tk, "UpstreamUnavailable") EXCEPT !.attempt = @ + 1, !.conn = 0]

\* get_or_connect_app_client returned Ok(app_ws)
AfterGetOk(tk, c) ==
    IF tk.op = "http"
    THEN [tk EXCEPT !.pc = "execute", !.conn = c, !.port = 0]
    ELSE [Done(tk, "Ok") EXCEPT !.conn = c]

\* get_or_connect_app_client returned Err(err)
AfterGetErr(tk, err) ==
    IF tk.op = "http" /\ ConnectArm(err) = "continue"
    THEN NextAttempt([tk EXCEPT !.conn = 0])
    ELSE Done([tk EXCEPT !.conn = 0], err)

\* Entry of AppConnPool::call for the app of task record tk
StartCall(tk) == [tk EXCEPT !.pc = "gc_read", !.attempt = 0, !.dna = "none"]

SetTask(t, tk) == tasks' = [tasks EXCEPT ![t] = tk]

\* The observed task's counters: one more get_or_connect_app_client call
\* whenever its record enters "gc_read".
ObsStep(t, tk, o) ==
    IF t # Observed THEN obs' = obs
    ELSE IF tk.pc = "gc_read" /\ tk.op = "http"
         THEN obs' = [o EXCEPT !.nGet = @ + 1]
         ELSE obs' = o

\* ------------------------------------------------------------------------
\* Request pipeline (routes/zome_call.rs)
\* ------------------------------------------------------------------------
\* The stages that follow application resolution: allow-list check of the
\* resolved app, function authorization, payload transcoding, then the call
\* through the pool.  r is the result of choose_unique_app.
AfterResolve(tk, r, payloadOk) ==
    IF r.err # "Ok" THEN Done(tk, r.err)
    ELSE IF ~is_app_allowed(r.app) THEN Done(tk, "NotAllowed")
    ELSE IF ~is_function_allowed(tk.app, tk.zf[1], tk.zf[2])
         THEN Done(tk, "UnauthorizedFunction")
    ELSE IF ~payloadOk THEN Done(tk, "RequestMalformed")
    ELSE StartCall(tk)

\* The observed task's record becomes tk before or at the entry of
\* AppConnPool::call
ObsStart(t, tk) ==
    IF t # Observed THEN obs' = obs
    ELSE IF tk.pc = "gc_read"
         THEN obs' = [NoObs EXCEPT !.nGet = 1, !.held = ext_read]
         ELSE obs' = NoObs

\* A task starts its next operation: it drops what the last one returned.
Resting(tk) == tk.pc \in {"idle", "done"}

\* A GET /{dna_hash}/{coordinator_identifier}/{zome_name}/{fn_name} arrives:
\* ZomeCallParams::from_request_parts validates the path, zome_call checks
\* the payload length; then try_get_valid_app searches the cached list.
ZomeCall(t) ==
    /\ Resting(tasks[t])
    /\ ops > 0
    /\ ops' = ops - 1
    /\ \E app \in AppIds, dna \in Dnas, zf \in ZomeFns,
          wellFormed \in BOOLEAN, payloadOk \in BOOLEAN :
          LET tk == [Idle EXCEPT !.op = "http", !.app = app, !.zf = zf, !.dna = dna]
              r == choose_unique_app(dna, app, app_info_cache)
              tk2 == IF ~wellFormed THEN Done(tk, "RequestMalformed")
                     ELSE IF r.err = "Ok" THEN AfterResolve(tk, r, payloadOk)
                     ELSE [tk EXCEPT !.pc = "resolve_list"]
          IN SetTask(t, tk2) /\ ObsStart(t, tk2)
    /\ UNCHANGED << app_clients, writer, cached_app_port, up, epoch,
                    iface_port, nextId, now, ext_read,
                    max_app_connections, app_info_cache >>
    /\ Collect(live, failed)

\* try_get_valid_app, the refresh: list_apps(Running), replace the cache
\* and search again
ResolveRefresh(t) ==
    /\ tasks[t].pc = "resolve_list"
    /\ \E res \in AdminResults, payloadOk \in BOOLEAN :
          LET tk == tasks[t]
              new_installed_apps == IF res = "Ok" THEN InstalledApps ELSE << >>
          IN IF new_installed_apps # << >>
             THEN LET tk2 == AfterResolve(tk,
                         choose_unique_app(tk.dna, tk.app, new_installed_apps),
                         payloadOk)
                  IN /\ app_info_cache' = new_installed_apps
                     /\ SetTask(t, tk2)
                     /\ ObsStart(t, tk2)
             ELSE /\ app_info_cache' = app_info_cache
                  /\ SetTask(t, Done(tk, "NotInstalled"))
                  /\ obs' = obs
    /\ UNCHANGED << ops, app_clients, writer, cached_app_port, up, epoch,
                    iface_port, live, nextId, now, ext_read,
                    max_app_connections, failed >>
    /\ UNCHANGED << credentials, adminVars, selectVars,
                    requestVars, configVars, portVars, transcodeVars >>

\* Direct use of the pool's public operations, as the tests do
GetDirect(t) ==
    /\ Resting(tasks[t])
    /\ ops > 0
    /\ ops' = ops - 1
    /\ \E app \in PoolApps :
          SetTask(t, [Idle EXCEPT !.op = "get", !.app = app, !.pc = "gc_read"])
    /\ UNCHANGED << obs, app_clients, writer, cached_app_port, up, epoch,
                    iface_port, nextId, now, ext_read,
                    max_app_connections, app_info_cache >>
    /\ Collect(live, failed)

RemoveDirect(t) ==
    /\ Resting(tasks[t])
    /\ ops > 0
    /\ ops' = ops - 1
    /\ \E app \in PoolApps :
          SetTask(t, [Idle EXCEPT !.op = "remove", !.app = app, !.pc = "remove"])
    /\ UNCHANGED << obs, app_clients, writer, cached_app_port, up, epoch,
                    iface_port, nextId, now, ext_read,
                    max_app_connections, app_info_cache >>
    /\ Collect(live, failed)

\* ------------------------------------------------------------------------
\* AppConnPool::get_or_connect_app_client
\* ------------------------------------------------------------------------
\* The lookup under the read guard
GcRead(t) ==
    /\ tasks[t].pc = "gc_read"
    /\ writer = 0
    /\ LET tk == tasks[t]
       IN IF ReadHit(app_clients, tk.app)
          THEN SetTask(t, AfterGetOk(tk, app_clients[tk.app].id))
          ELSE SetTask(t, [tk EXCEPT !.pc = "gc_write"])
    /\ UNCHANGED << obs, ops, app_clients, writer, cached_app_port, up, epoch,
                    iface_port, live, nextId, now, ext_read,
                    max_app_connections, app_info_cache, failed >>
    /\ UNCHANGED << credentials, adminVars, selectVars,
                    requestVars, configVars, portVars, transcodeVars >>

\* app_clients.write().await and the entry() check
GcWrite(t) ==
    /\ tasks[t].pc = "gc_write"
    /\ writer = 0
    /\ ~ext_read
    /\ writer' = t
    /\ LET tk == tasks[t]
       IN IF EntryOccupied(app_clients, tk.app)
          THEN SetTask(t, [tk EXCEPT !.pc = "gc_evict",
                                     !.conn = app_clients[tk.app].id])
          ELSE SetTask(t, [tk EXCEPT !.pc = "ca_port"])
    /\ UNCHANGED << obs, ops, app_clients, cached_app_port, up, epoch,
                    iface_port, live, nextId, now, ext_read,
                    max_app_connections, app_info_cache, failed >>
    /\ UNCHANGED << credentials, adminVars, selectVars,
                    requestVars, configVars, portVars, transcodeVars >>

\* Variant: the guard of a dropped future stays locked
GuardAfterDrop_leak(w, t) == w

\* Leaving the function, or dropping its future, drops its locals,
\* app_client_lock among them
GuardAfterDrop(w, t) == IF w = t THEN 0 ELSE w

\* An error leaves get_or_connect_app_client through `?`: the write guard
\* is dropped.
GetFail(t, tk, err) ==
    /\ writer' = GuardAfterDrop(writer, t)
    /\ SetTask(t, AfterGetErr(tk, err))
    /\ ObsStep(t, AfterGetErr(tk, err),
               [obs EXCEPT !.fresh = IF err \in {"OtherError", "WsError"} THEN 0 ELSE @])

\* get_app_port: the cached port, or list_app_interfaces
CaPort(t) ==
    /\ tasks[t].pc = "ca_port"
    /\ LET tk == tasks[t]
       IN IF cached_app_port # 0
          THEN /\ SetTask(t, [tk EXCEPT !.pc = "ca_token", !.port = cached_app_port])
               /\ UNCHANGED << obs, writer, cached_app_port >>
          ELSE \E res \in AdminResults :
                  IF res # "Ok"
                  THEN /\ GetFail(t, tk, res)
                       /\ UNCHANGED cached_app_port
                  ELSE IF iface_port # 0
                  THEN /\ cached_app_port' = iface_port
                       /\ SetTask(t, [tk EXCEPT !.pc = "ca_token", !.port = iface_port])
                       /\ UNCHANGED << obs, writer >>
                  ELSE /\ SetTask(t, [tk EXCEPT !.pc = "ca_attach"])
                       /\ UNCHANGED << obs, writer, cached_app_port >>
    /\ UNCHANGED << ops, app_clients, up, epoch, iface_port, nextId, now,
                    ext_read, max_app_connections, app_info_cache >>
    /\ Collect(live, failed)

\* get_app_port: attach_app_interface(0, hc-http-gw, None)
CaAttach(t) ==
    /\ tasks[t].pc = "ca_attach"
    /\ \E res \in AdminResults :
          IF res # "Ok"
          THEN /\ GetFail(t, tasks[t], res)
               /\ UNCHANGED << cached_app_port, iface_port >>
          ELSE /\ iface_port' = epoch
               /\ cached_app_port' = epoch
               /\ SetTask(t, [tasks[t] EXCEPT !.pc = "ca_token", !.port = epoch])
               /\ UNCHANGED << obs, writer >>
    /\ UNCHANGED << ops, app_clients, up, epoch, nextId, now, ext_read,
                    max_app_connections, app_info_cache >>
    /\ Collect(live, failed)

\* attempt_connect_app_ws: issue_app_auth_token
CaToken(t) ==
    /\ tasks[t].pc = "ca_token"
    /\ \E res \in AdminResults :
          IF res # "Ok"
          THEN GetFail(t, tasks[t], res)
          ELSE /\ SetTask(t, [tasks[t] EXCEPT !.pc = "ca_handshake"])
               /\ UNCHANGED << obs, writer >>
    /\ UNCHANGED << ops, app_clients, cached_app_port, up, epoch, iface_port,
                    nextId, now, ext_read, max_app_connections,
                    app_info_cache >>
    /\ Collect(live, failed)

\* attempt_connect_app_ws: AppWebsocket::connect_with_request_and_config
CaHandshake(t) ==
    /\ tasks[t].pc = "ca_handshake"
    /\ LET tk == tasks[t]
       IN IF up /\ tk.port = iface_port
          THEN /\ nextId <= MaxConns
               /\ nextId' = nextId + 1
               /\ SetTask(t, [tk EXCEPT !.pc = "ca_authorize", !.conn = nextId])
               /\ UNCHANGED << obs, writer, cached_app_port >>
               /\ UNCHANGED app_clients
               /\ Collect(live \cup {nextId}, failed)
          ELSE /\ cached_app_port' = PortAfterFailedConnect(cached_app_port)
               /\ GetFail(t, tk, "UpstreamUnavailable")
               /\ UNCHANGED << nextId, app_clients >>
               /\ Collect(live, failed)
    /\ UNCHANGED << ops, up, epoch, iface_port, now, ext_read,
                    max_app_connections, app_info_cache >>

\* attempt_connect_app_ws: authorize_signing_credentials for the next
\* provisioned cell; after the last one, entry.insert with
\* opened_at = Timestamp::now()
CaAuthorize(t) ==
    /\ tasks[t].pc = "ca_authorize"
    /\ \E res \in AdminResults :
          LET tk == tasks[t]
              cell == tk.cell + 1
              granted == [conn |-> tk.conn, cell |-> cell,
                          functions |-> granted_functions(tk.app)]
          IN IF res # "Ok"
             THEN /\ GetFail(t, [tk EXCEPT !.cell = 0], res)
                  /\ UNCHANGED << app_clients, now >>
                  /\ Collect(live, failed)
             ELSE IF \E c \in CellsToAuthorize(tk.app) : c > cell
             THEN /\ SetTask(t, [tk EXCEPT !.cell = cell])
                  /\ UNCHANGED << obs, writer, app_clients, now >>
                  /\ CollectAll(live, failed, credentials \cup {granted})
             ELSE \E ts \in {now, now + 1} :
                     /\ ts <= MaxClock
                     /\ now' = ts
                     /\ app_clients' = MapInsert(app_clients, tk.app,
                                          [id |-> tk.conn, opened_at |-> ts])
                     /\ SetTask(t, [tk EXCEPT !.pc = "gc_evict", !.cell = 0])
                     /\ UNCHANGED << obs, writer >>
                     /\ CollectAll(live, failed, credentials \cup {granted})
    /\ UNCHANGED << ops, cached_app_port, up, epoch, iface_port, nextId,
                    ext_read, max_app_connections, app_info_cache >>

\* The size check after the entry match: evict the oldest connection, drop
\* the write guard, return Ok(app_ws)
GcEvict(t) ==
    /\ tasks[t].pc = "gc_evict"
    /\ IF NeedsEviction(app_clients, max_app_connections)
       THEN \E victim \in OldestApps(app_clients) :
               app_clients' = MapRemove(app_clients, victim)
       ELSE app_clients' = app_clients
    /\ writer' = 0
    /\ SetTask(t, AfterGetOk(tasks[t], tasks[t].conn))
    /\ UNCHANGED << obs, ops, cached_app_port, up, epoch, iface_port, nextId,
                    now, ext_read, max_app_connections, app_info_cache >>
    /\ Collect(live, failed)

\* ------------------------------------------------------------------------
\* AppConnPool::call: execute(app_ws).await and its match
\* ------------------------------------------------------------------------
Execute(t) ==
    /\ tasks[t].pc = "execute"
    /\ \E res \in ExecuteResults(tasks[t].conn) :
          LET tk == tasks[t]
              usable == tk.conn \in live /\ up
              o == [obs EXCEPT !.nF = @ + 1,
                        !.nOk = IF res = "Ok" THEN @ + 1 ELSE @,
                        !.nWs = IF res = "WsError" THEN @ + 1 ELSE @,
                        !.fresh = IF tk.attempt = 0 /\ ~usable /\ up THEN nextId
                                  ELSE IF usable /\ res # "Ok" THEN 0 ELSE @]
              arm == ExecuteArm(res)
              tk2 == IF arm = "return" THEN Done(tk, res)
                     ELSE IF arm = "remove_continue" THEN [tk EXCEPT !.pc = "remove"]
                     ELSE NextAttempt(tk)
          IN /\ SetTask(t, tk2)
             /\ ObsStep(t, tk2, o)
             /\ UNCHANGED app_clients
             /\ Collect(live, IF res = "WsError" THEN failed \cup {tk.conn} ELSE failed)
    /\ UNCHANGED << ops, writer, cached_app_port, up, epoch, iface_port,
                    nextId, now, ext_read, max_app_connections,
                    app_info_cache >>

\* AppConnPool::remove_app_client
RemoveClient(t) ==
    /\ tasks[t].pc = "remove"
    /\ writer = 0
    /\ ~ext_read
    /\ app_clients' = MapRemove(app_clients, tasks[t].app)
    /\ LET tk2 == IF tasks[t].op = "http" THEN NextAttempt(tasks[t])
                  ELSE Done(tasks[t], "Ok")
       IN SetTask(t, tk2) /\ ObsStep(t, tk2, obs)
    /\ UNCHANGED << ops, writer, cached_app_port, up, epoch, iface_port,
                    nextId, now, ext_read, max_app_connections,
                    app_info_cache >>
    /\ Collect(live, failed)

\* ------------------------------------------------------------------------
\* Environment: the Conductor and the holder of the inner pool
\* ------------------------------------------------------------------------
InCall(tk) ==
    tk.op = "http" /\ tk.pc \notin {"idle", "resolve_list", "done"}

\* Something can still happen in the gateway
Active == ops > 0 \/ \E t \in Tasks : ~Resting(tasks[t])

Unclean ==
    IF InCall(tasks[Observed]) THEN [obs EXCEPT !.fresh = 0] ELSE obs

\* sweet_conductor.shutdown(): every websocket of the Conductor dies
ConductorDown ==
    /\ Active
    /\ up
    /\ epoch < MaxEpoch
    /\ up' = FALSE
    /\ live' = {}
    /\ obs' = Unclean
    /\ UNCHANGED << tasks, ops, app_clients, writer, cached_app_port, epoch,
                    iface_port, nextId, now, ext_read, max_app_connections,
                    app_info_cache, failed >>
    /\ UNCHANGED << credentials, adminVars, selectVars,
                    requestVars, configVars, portVars, transcodeVars >>

\* sweet_conductor.startup(): the interfaces come back on new ports, if at all
ConductorUp ==
    /\ Active
    /\ ~up
    /\ up' = TRUE
    /\ epoch' = epoch + 1
    /\ iface_port' \in {0, epoch + 1}
    /\ UNCHANGED << tasks, obs, ops, app_clients, writer, cached_app_port,
                    live, nextId, now, ext_read, max_app_connections,
                    app_info_cache, failed >>
    /\ UNCHANGED << credentials, adminVars, selectVars,
                    requestVars, configVars, portVars, transcodeVars >>

\* One app websocket is closed by the peer or the network
KillConn ==
    /\ Active
    /\ \E c \in live : live' = live \ {c}
    /\ obs' = Unclean
    /\ UNCHANGED << tasks, ops, app_clients, writer, cached_app_port, up,
                    epoch, iface_port, nextId, now, ext_read,
                    max_app_connections, app_info_cache, failed >>
    /\ UNCHANGED << credentials, adminVars, selectVars,
                    requestVars, configVars, portVars, transcodeVars >>

\* get_inner_pool().read().await taken and dropped by a caller
ExtReadAcquire ==
    /\ Active
    /\ ~ext_read
    /\ writer = 0
    /\ ext_read' = TRUE
    /\ UNCHANGED << tasks, obs, ops, app_clients, writer, cached_app_port, up,
                    epoch, iface_port, live, nextId, now,
                    max_app_connections, app_info_cache, failed >>
    /\ UNCHANGED << credentials, adminVars, selectVars,
                    requestVars, configVars, portVars, transcodeVars >>

ExtReadRelease ==
    /\ ext_read
    /\ ext_read' = FALSE
    /\ obs' = [obs EXCEPT !.held = FALSE]
    /\ UNCHANGED << tasks, ops, app_clients, writer, cached_app_port, up,
                    epoch, iface_port, live, nextId, now,
                    max_app_connections, app_info_cache, failed >>
    /\ UNCHANGED << credentials, adminVars, selectVars,
                    requestVars, configVars, portVars, transcodeVars >>

Next ==
    \/ \E t \in HttpTasks : ZomeCall(t)
    \/ \E t \in HttpTasks : ResolveRefresh(t)
    \/ \E t \in DirectTasks : GetDirect(t)
    \/ \E t \in DirectTasks : RemoveDirect(t)
    \/ \E t \in Tasks : GcRead(t)
    \/ \E t \in Tasks : GcWrite(t)
    \/ \E t \in Tasks : CaPort(t)
    \/ \E t \in Tasks : CaAttach(t)
    \/ \E t \in Tasks : CaToken(t)
    \/ \E t \in Tasks : CaHandshake(t)
    \/ \E t \in Tasks : CaAuthorize(t)
    \/ \E t \in Tasks : GcEvict(t)
    \/ \E t \in Tasks : Execute(t)
    \/ \E t \in Tasks : RemoveClient(t)
    \/ ConductorDown
    \/ ConductorUp
    \/ KillConn
    \/ ExtReadAcquire
    \/ ExtReadRelease

Spec == Init /\ [][Next]_vars

\* ------------------------------------------------------------------------
\* Cancellation: the future of a request or of a pool operation is dropped
\* ------------------------------------------------------------------------
\* The await points of zome_call, AppConnPool::call,
\* get_or_connect_app_client, attempt_connect_app_ws and remove_app_client.
\* Between entry.insert and the return of get_or_connect_app_client there
\* is none.
Suspended(tk) ==
    tk.pc \in {"resolve_list", "gc_read", "gc_write", "ca_port", "ca_attach",
               "ca_token", "ca_handshake", "ca_authorize", "execute", "remove"}

\* tokio::time::timeout expires, or the HTTP layer drops the request: the
\* future is dropped where it is suspended.
Cancel(t) ==
    /\ Suspended(tasks[t])
    /\ SetTask(t, Idle)
    /\ obs' = IF t = Observed THEN NoObs ELSE obs
    /\ writer' = GuardAfterDrop(writer, t)
    /\ UNCHANGED << ops, app_clients, cached_app_port, up, epoch, iface_port,
                    nextId, now, ext_read, max_app_connections,
                    app_info_cache >>
    /\ Collect(live, failed)

NextCancel ==
    \/ Next
    \/ \E t \in Tasks : Cancel(t)

SpecCancel == Init /\ [][NextCancel]_vars

NextSeq ==
    \/ \E t \in DirectTasks : GetDirect(t)
    \/ \E t \in DirectTasks : RemoveDirect(t)
    \/ \E t \in DirectTasks : GcRead(t)
    \/ \E t \in DirectTasks : GcWrite(t)
    \/ \E t \in DirectTasks : CaPort(t)
    \/ \E t \in DirectTasks : CaAttach(t)
    \/ \E t \in DirectTasks : CaToken(t)
    \/ \E t \in DirectTasks : CaHandshake(t)
    \/ \E t \in DirectTasks : CaAuthorize(t)
    \/ \E t \in DirectTasks : GcEvict(t)
    \/ \E t \in DirectTasks : RemoveClient(t)
    \/ ConductorDown
    \/ ConductorUp
    \/ KillConn

SpecSeq == InitSeq /\ [][NextSeq]_vars

\* Two tasks on a Conductor that stays up, with room for one operation more:
\* a request and two direct pool operations, or two requests and one.
InitRace ==
    /\ InitState
    /\ max_app_connections = MaxAppConnections
    /\ ops = MaxRaceOps
    /\ AdminInitState
    /\ admin_ops = 0
    /\ SelectInitState

NextRace ==
    \/ \E t \in HttpTasks : ZomeCall(t)
    \/ \E t \in HttpTasks : ResolveRefresh(t)
    \/ \E t \in DirectTasks : GetDirect(t)
    \/ \E t \in DirectTasks : RemoveDirect(t)
    \/ \E t \in Tasks : GcRead(t)
    \/ \E t \in Tasks : GcWrite(t)
    \/ \E t \in Tasks : CaPort(t)
    \/ \E t \in Tasks : CaAttach(t)
    \/ \E t \in Tasks : CaToken(t)
    \/ \E t \in Tasks : CaHandshake(t)
    \/ \E t \in Tasks : CaAuthorize(t)
    \/ \E t \in Tasks : GcEvict(t)
    \/ \E t \in Tasks : Execute(t)
    \/ \E t \in Tasks : RemoveClient(t)

SpecRace == InitRace /\ [][NextRace]_vars

\* What a task does between the arrival of its request, or the start of its
\* pool operation, and the response
TaskStep(t) ==
    \/ ResolveRefresh(t)
    \/ GcRead(t)
    \/ GcWrite(t)
    \/ CaPort(t)
    \/ CaAttach(t)
    \/ CaToken(t)
    \/ CaHandshake(t)
    \/ CaAuthorize(t)
    \/ GcEvict(t)
    \/ Execute(t)
    \/ RemoveClient(t)

\* The runtime polls a future that can proceed, every upstream operation
\* returns, and a guard that stays free is granted to a task waiting for it.
\* Requests need not arrive.
TaskFairness == \A t \in Tasks : WF_vars(TaskStep(t))

SpecLive == InitRace /\ [][NextRace]_vars /\ TaskFairness

\* ------------------------------------------------------------------------
\* AdminConn (holochain/admin_conn.rs)
\* ------------------------------------------------------------------------
\* Variant: reconnect() tries twice
ADMIN_WS_CONNECTION_MAX_RETRIES_two == 1 + 1

ADMIN_WS_CONNECTION_MAX_RETRIES == 1

\* Errors of the Conductor's admin API that are not transport failures
ProtocolErrors == {"ExternalApiWireError", "CellNotFound"}

\* Variant: every error of f is taken for a disconnection
IsWebsocketError_any(e) == e # "Ok"

\* matches!(e, ConductorApiError::WebsocketError(_))
IsWebsocketError(e) == e = "WebsocketError"

\* HcHttpGatewayError::from(ConductorApiError): the variant HolochainError
\* carries the error
HolochainError(e) == [kind |-> "HolochainError", inner |-> e]

UpstreamUnavailable == [kind |-> "UpstreamUnavailable", inner |-> "none"]

AdminOk == [kind |-> "Ok", inner |-> "none"]

\* What f returns on the clone it was given: the Conductor answers on a
\* usable websocket, with a value or a protocol error; an unusable
\* websocket fails at transport level.
AdminFResults(c) ==
    IF up /\ c \in admin_alive THEN {"Ok"} \cup ProtocolErrors
    ELSE {"WebsocketError"}

\* A call has ended with a transport failure
IsTransportFailure(res) ==
    \/ res = UpstreamUnavailable
    \/ res = HolochainError("WebsocketError")

AdminSet(c, ck) == admin_calls' = [admin_calls EXCEPT ![c] = ck]

AdminDone(c, ck, res) ==
    /\ AdminSet(c, [ck EXCEPT !.pc = "done", !.result = res])
    /\ admin_transport_failed' =
          (admin_transport_failed \/ IsTransportFailure(res))

\* call: the read guard is taken, the websocket cloned, the guard dropped
AdminCallStart(c) ==
    /\ admin_ops > 0
    /\ admin_calls[c].pc \in {"idle", "done"}
    /\ admin_ops' = admin_ops - 1
    /\ AdminSet(c, [AdminIdle EXCEPT !.pc = "first",
                                    !.connection = connection_handle,
                                    !.slot = connection_handle,
                                    !.reachable = up,
                                    !.after_failure = admin_transport_failed])
    /\ UNCHANGED << connection_handle, admin_opened, admin_alive,
                    admin_transport_failed, up, poolVars, selectVars,
                    requestVars, configVars, portVars, transcodeVars >>

\* call: fn_factory()(connection).await, the first attempt
AdminFirst(c) ==
    LET ck == admin_calls[c] IN
    /\ ck.pc = "first"
    /\ \E r \in AdminFResults(ck.connection) :
          LET ck1 == [ck EXCEPT !.nF = ck.nF + 1, !.first = r] IN
          IF r = "Ok" THEN AdminDone(c, ck1, AdminOk)
          ELSE IF IsWebsocketError(r)
          THEN /\ AdminSet(c, [ck1 EXCEPT !.pc = "reconnect"])
               /\ UNCHANGED admin_transport_failed
          ELSE AdminDone(c, ck1, HolochainError(r))
    /\ UNCHANGED << connection_handle, admin_ops, admin_opened, admin_alive,
                    up, poolVars, selectVars,
                    requestVars, configVars, portVars, transcodeVars >>

\* reconnect: one turn of the loop around AdminWebsocket::connect
AdminReconnect(c) ==
    LET ck == admin_calls[c]
        id == Len(admin_opened) + 1
    IN
    /\ ck.pc = "reconnect"
    /\ IF ck.current_retries < ADMIN_WS_CONNECTION_MAX_RETRIES
       THEN IF up
            THEN /\ admin_opened' = Append(admin_opened, ck.connection)
                 /\ admin_alive' = admin_alive \cup {id}
                 /\ AdminSet(c, [ck EXCEPT !.pc = "write", !.new_conn = id,
                                           !.nConnect = ck.nConnect + 1])
                 /\ UNCHANGED admin_transport_failed
            ELSE /\ UNCHANGED << admin_opened, admin_alive >>
                 /\ LET ck1 == [ck EXCEPT
                                  !.nConnect = ck.nConnect + 1,
                                  !.current_retries = ck.current_retries + 1]
                    IN
                    IF ck1.current_retries < ADMIN_WS_CONNECTION_MAX_RETRIES
                    THEN /\ AdminSet(c, ck1)
                         /\ UNCHANGED admin_transport_failed
                    ELSE AdminDone(c, ck1, UpstreamUnavailable)
       ELSE /\ AdminDone(c, ck, [kind |-> "InternalError", inner |-> "none"])
            /\ UNCHANGED << admin_opened, admin_alive >>
    /\ UNCHANGED << connection_handle, admin_ops, up, poolVars, selectVars,
                    requestVars, configVars, portVars, transcodeVars >>

\* reconnect: the write guard is taken and the websocket in the slot replaced
AdminWrite(c) ==
    LET ck == admin_calls[c] IN
    /\ ck.pc = "write"
    /\ connection_handle' = ck.new_conn
    /\ AdminSet(c, [ck EXCEPT !.pc = "read"])
    /\ UNCHANGED << admin_ops, admin_opened, admin_alive,
                    admin_transport_failed, up, poolVars, selectVars,
                    requestVars, configVars, portVars, transcodeVars >>

\* call: the slot is read again after reconnect() returned Ok
AdminRead(c) ==
    LET ck == admin_calls[c] IN
    /\ ck.pc = "read"
    /\ AdminSet(c, [ck EXCEPT !.pc = "second", !.connection = connection_handle])
    /\ UNCHANGED << connection_handle, admin_ops, admin_opened, admin_alive,
                    admin_transport_failed, up, poolVars, selectVars,
                    requestVars, configVars, portVars, transcodeVars >>

\* call: the retry, fn_factory()(connection).await.map_err(from)
AdminSecond(c) ==
    LET ck == admin_calls[c] IN
    /\ ck.pc = "second"
    /\ \E r \in AdminFResults(ck.connection) :
          LET ck1 == [ck EXCEPT !.nF = ck.nF + 1, !.second = r] IN
          AdminDone(c, ck1, IF r = "Ok" THEN AdminOk ELSE HolochainError(r))
    /\ UNCHANGED << connection_handle, admin_ops, admin_opened, admin_alive,
                    up, poolVars, selectVars,
                    requestVars, configVars, portVars, transcodeVars >>

AdminActive ==
    admin_ops > 0 \/ \E c \in AdminCallers : admin_calls[c].pc \notin {"idle", "done"}

\* The calls in flight have seen the Conductor or a websocket go away
AdminUnreachable ==
    [c \in AdminCallers |->
        IF admin_calls[c].pc \in {"idle", "done"} THEN admin_calls[c]
        ELSE [admin_calls[c] EXCEPT !.reachable = FALSE]]

\* sweet_conductor.shutdown(): every admin websocket dies
AdminConductorDown ==
    /\ AdminActive
    /\ up
    /\ up' = FALSE
    /\ admin_alive' = {}
    /\ admin_calls' = AdminUnreachable
    /\ UNCHANGED << connection_handle, admin_ops, admin_opened,
                    admin_transport_failed, poolVars, selectVars,
                    requestVars, configVars, portVars, transcodeVars >>

\* sweet_conductor.startup()
AdminConductorUp ==
    /\ AdminActive
    /\ ~up
    /\ up' = TRUE
    /\ UNCHANGED << adminVars, poolVars, selectVars,
                    requestVars, configVars, portVars, transcodeVars >>

\* One admin websocket is closed by the peer or the network
AdminKillConn ==
    /\ AdminActive
    /\ \E id \in admin_alive : admin_alive' = admin_alive \ {id}
    /\ admin_calls' = AdminUnreachable
    /\ UNCHANGED << connection_handle, admin_ops, admin_opened,
                    admin_transport_failed, up, poolVars, selectVars,
                    requestVars, configVars, portVars, transcodeVars >>

NextAdmin ==
    \/ \E c \in AdminCallers : AdminCallStart(c)
    \/ \E c \in AdminCallers : AdminFirst(c)
    \/ \E c \in AdminCallers : AdminReconnect(c)
    \/ \E c \in AdminCallers : AdminWrite(c)
    \/ \E c \in AdminCallers : AdminRead(c)
    \/ \E c \in AdminCallers : AdminSecond(c)
    \/ AdminConductorDown
    \/ AdminConductorUp
    \/ AdminKillConn

SpecAdmin == InitAdmin /\ [][NextAdmin]_vars

\* ------------------------------------------------------------------------
\* try_get_valid_app on arbitrary lists of apps (app_selection.rs)
\* ------------------------------------------------------------------------
\* The lists list_apps may return: up to MaxApps descriptors, two of them
\* possibly with the same installed_app_id as in the unit tests, with
\* provisioned and other cells
AppInfos ==
    [installed_app_id : {"app_1", "app_3"},
     cell_info : {{Provisioned("d1")},
                  {Provisioned("d2"), Cloned("d1")},
                  {Provisioned("d1"), Provisioned("d2")}}]

AppLists == UNION {[1..n -> AppInfos] : n \in 0..MaxApps}

\* Variant: the allow-list is consulted before the search result
TryGetValidAppResult_allow_first(rs, r, list) ==
    IF ~is_app_allowed(rs.coordinator_identifier)
    THEN [rs EXCEPT !.pc = "done", !.err = "NotAllowed", !.searched = list]
    ELSE IF r.err # "Ok"
    THEN [rs EXCEPT !.pc = "done", !.err = r.err, !.searched = list]
    ELSE [rs EXCEPT !.pc = "done", !.err = "Ok", !.app_info = r.info,
                    !.searched = list]

\* try_get_valid_app, after an app was chosen from list: the allow-list
TryGetValidAppResult(rs, r, list) ==
    IF r.err # "Ok"
    THEN [rs EXCEPT !.pc = "done", !.err = r.err, !.searched = list]
    ELSE IF ~is_app_allowed(r.info.installed_app_id)
    THEN [rs EXCEPT !.pc = "done", !.err = "NotAllowed", !.searched = list]
    ELSE [rs EXCEPT !.pc = "done", !.err = "Ok", !.app_info = r.info,
                    !.searched = list]

\* Variant: the cached list is never trusted
CacheHit_never(r) == FALSE

\* try_get_valid_app: choose_unique_app(..).ok() is Some
CacheHit(r) == r.err = "Ok"

\* Variant: the cache takes whatever list_apps returned
GotResponse_always(new_installed_apps) == TRUE

\* try_get_valid_app: !new_installed_apps.is_empty()
GotResponse(new_installed_apps) == new_installed_apps # << >>

\* try_get_valid_app: the search of the cached list under the read guard
TryGetValidApp ==
    /\ resolve_ops > 0
    /\ resolve.pc \in {"idle", "done"}
    /\ resolve_ops' = resolve_ops - 1
    /\ \E dna \in Dnas, id \in AppIds :
          LET rs == [ResolveIdle EXCEPT
                        !.dna_hash = dna,
                        !.coordinator_identifier = id,
                        !.cache_before = app_info_cache,
                        !.cached_matches =
                            Len(FilterApps(dna, id, app_info_cache)),
                        !.held = cache_read]
              r == choose_unique_app(dna, id, app_info_cache)
          IN resolve' = IF CacheHit(r)
                        THEN TryGetValidAppResult(rs, r, app_info_cache)
                        ELSE [rs EXCEPT !.pc = "list_apps"]
    /\ UNCHANGED << conductor_apps, cache_read, app_info_cache, up, adminVars, requestVars, configVars, portVars, transcodeVars >>
    /\ UNCHANGED << tasks, obs, ops, app_clients, writer, ext_read,
                    cached_app_port, max_app_connections, epoch, iface_port,
                    live, nextId, now, failed, credentials >>

\* try_get_valid_app: list_apps(Running); an error or an empty answer ends
\* the call with NotInstalled
TryGetValidAppListApps ==
    /\ resolve.pc = "list_apps"
    /\ \E res \in AdminResults :
          LET new_installed_apps == IF res = "Ok" THEN conductor_apps ELSE << >>
              rs == [resolve EXCEPT !.nListApps = @ + 1,
                                    !.list_ok = (res = "Ok"),
                                    !.new_installed_apps = new_installed_apps]
          IN IF GotResponse(new_installed_apps)
             THEN resolve' = [rs EXCEPT !.pc = "write"]
             ELSE resolve' = [rs EXCEPT !.pc = "done", !.err = "NotInstalled"]
    /\ UNCHANGED << conductor_apps, cache_read, resolve_ops, app_info_cache,
                    up, adminVars, requestVars, configVars, portVars, transcodeVars >>
    /\ UNCHANGED << tasks, obs, ops, app_clients, writer, ext_read,
                    cached_app_port, max_app_connections, epoch, iface_port,
                    live, nextId, now, failed, credentials >>

\* try_get_valid_app: the write guard of the cache is taken once no reader
\* holds it, the cache replaced and the new list searched
TryGetValidAppRefresh ==
    /\ resolve.pc = "write"
    /\ ~cache_read
    /\ app_info_cache' = resolve.new_installed_apps
    /\ resolve' =
          TryGetValidAppResult([resolve EXCEPT !.wrote = TRUE],
              choose_unique_app(resolve.dna_hash,
                                resolve.coordinator_identifier,
                                app_info_cache'),
              app_info_cache')
    /\ UNCHANGED << conductor_apps, cache_read, resolve_ops, up, adminVars, requestVars, configVars, portVars, transcodeVars >>
    /\ UNCHANGED << tasks, obs, ops, app_clients, writer, ext_read,
                    cached_app_port, max_app_connections, epoch, iface_port,
                    live, nextId, now, failed, credentials >>

\* Apps are installed, uninstalled, enabled or disabled on the Conductor
ConductorAppsChange ==
    /\ resolve_ops > 0 \/ resolve.pc = "list_apps"
    /\ conductor_apps' \in AppLists \ {conductor_apps}
    /\ UNCHANGED << resolve, resolve_ops, cache_read, up, adminVars, requestVars, configVars, portVars, transcodeVars,
                    poolVars >>

\* installed_apps_cache.read().await taken by another holder of the cache;
\* possible whenever no writer holds the guard
CacheReadAcquire ==
    /\ resolve_ops > 0 \/ resolve.pc \notin {"idle", "done"}
    /\ ~cache_read
    /\ cache_read' = TRUE
    /\ UNCHANGED << conductor_apps, resolve, resolve_ops, up, adminVars, requestVars, configVars, portVars, transcodeVars,
                    poolVars >>

\* The holder drops its read guard
CacheReadRelease ==
    /\ cache_read
    /\ cache_read' = FALSE
    /\ resolve' = [resolve EXCEPT !.held = FALSE]
    /\ UNCHANGED << conductor_apps, resolve_ops, up, adminVars, requestVars, configVars, portVars, transcodeVars,
                    poolVars >>

InitSelect ==
    /\ InitState
    /\ max_app_connections = MaxAppConnections
    /\ iface_port = 0
    /\ ops = 0
    /\ AdminInitState
    /\ admin_ops = 0
    /\ conductor_apps \in AppLists
    /\ resolve = ResolveIdle
    /\ resolve_ops = MaxResolveOps
    /\ cache_read = FALSE
    /\ request = RequestIdle
    /\ configuration = ConfigIdle
    /\ app_interfaces = << >>
    /\ connect = ConnectIdle
    /\ transcode = TranscodeIdle

NextSelect ==
    \/ TryGetValidApp
    \/ TryGetValidAppListApps
    \/ TryGetValidAppRefresh
    \/ ConductorAppsChange
    \/ CacheReadAcquire
    \/ CacheReadRelease

SpecSelect == InitSelect /\ [][NextSelect]_vars



\* ------------------------------------------------------------------------
\* One HTTP request through the handler (routes/zome_call.rs), stage by
\* stage, and its response (error.rs)
\* ------------------------------------------------------------------------
MAX_IDENTIFIER_CHARS == 100

\* Configuration.payload_limit_bytes of the gateways the requests are sent to
PayloadLimits == {10, 12}

\* identifier.chars().count()
Chars(identifier) ==
    IF identifier = "id_101" THEN MAX_IDENTIFIER_CHARS + 1
    ELSE IF identifier = "id_100" THEN MAX_IDENTIFIER_CHARS
    ELSE 9

\* The payload query parameter: absent, or a string of raw_len bytes that
\* BASE64_URL_SAFE decodes or not (padded base64 has a multiple of four
\* characters) and whose decoded bytes are a JSON value or not
Payloads ==
    {[present |-> FALSE, raw_len |-> 0, base64 |-> FALSE, json |-> FALSE]} \cup
    {p \in [present : {TRUE}, raw_len : {8, 10, 11, 12, 13, 16},
            base64 : BOOLEAN, json : BOOLEAN] :
        /\ p.base64 => p.raw_len % 4 = 0
        /\ p.json => p.base64}

\* The running apps of a Conductor on which app_1 is installed twice for d1
DuplicatedApps ==
    InstalledApps \o
    << [installed_app_id |-> "app_1",
        cell_info |-> {Provisioned("d1"), Provisioned("d2")}] >>

\* HcHttpGatewayError values
RequestMalformed(message) == [kind |-> "RequestMalformed", inner |-> message]
UnauthorizedFunction == [kind |-> "UnauthorizedFunction", inner |-> "none"]
AppSelection(err) == [kind |-> "AppSelection", inner |-> err]
NoError == [kind |-> "none", inner |-> "none"]

\* HcHttpGatewayError::into_response: the arms of the errors a request can
\* end with, and the catch-all arm
into_response(e) ==
    IF e.kind = "UnauthorizedFunction"
    THEN [status |-> 403, body |-> <<"Function is not allowed">>]
    ELSE IF e.kind = "UpstreamUnavailable"
    THEN [status |-> 502, body |-> <<"Could not connect to Holochain">>]
    ELSE [status |-> 500, body |-> <<"Something went wrong">>]

\* The response to an error: that of RequestMalformed(message), that of an
\* AppSelectionError, or that of into_response
Respond(e) ==
    IF e.kind = "RequestMalformed"
    THEN [status |-> 400, body |-> <<"Request is malformed", e.inner>>]
    ELSE IF e = AppSelection("NotInstalled")
    THEN [status |-> 404, body |-> <<"App is not installed">>]
    ELSE IF e = AppSelection("NotAllowed")
    THEN [status |-> 403, body |-> <<"App is not allowed">>]
    ELSE IF e.kind = "AppSelection"
    THEN [status |-> 500, body |-> <<"Something went wrong">>]
    ELSE into_response(e)

\* Variant: the function is authorized after the payload is transcoded
HandlerStages_transcode_first == << "path", "size", "transcode", "authorize" >>

\* from_request_parts, then the statements of zome_call in program order
HandlerStages == << "path", "size", "authorize", "transcode" >>

\* The stages of a request: application resolution follows the payload size
\* check, the pool call follows transcoding
StageOrder ==
    SubSeq(HandlerStages, 1, 2) \o << "resolve" >> \o
    SubSeq(HandlerStages, 3, Len(HandlerStages)) \o << "call" >>

\* The stage that follows stage, "done" after the last
NextStage(stage) ==
    LET i == CHOOSE k \in 1..Len(StageOrder) : StageOrder[k] = stage
    IN IF i = Len(StageOrder) THEN "done" ELSE StageOrder[i + 1]

\* A request before its first stage.  down: the Conductor has been
\* unreachable ever since the request arrived; list_apps, call: the results
\* of list_apps and of the pool call, "none" if not made
NewRequest(dna_hash, coordinator_identifier, zome_name, fn_name, payload, limit) ==
    [pc |-> StageOrder[1], dna_hash |-> dna_hash,
     coordinator_identifier |-> coordinator_identifier,
     zome_name |-> zome_name, fn_name |-> fn_name, payload |-> payload,
     payload_limit_bytes |-> limit, cache_before |-> app_info_cache,
     down |-> ~up, ran |-> << >>, list_apps |-> "none", call |-> "none",
     error |-> NoError, response |-> [status |-> 0, body |-> << >>]]

\* return Err(e): the response is that of e and no later stage runs
Fail(rq, stage, e) ==
    [rq EXCEPT !.pc = "done", !.ran = Append(@, stage), !.error = e,
               !.response = Respond(e)]

\* The stage found nothing wrong: the next one runs
Pass(rq, stage) ==
    [rq EXCEPT !.pc = NextStage(stage), !.ran = Append(@, stage),
               !.response = IF NextStage(stage) = "done"
                            THEN [status |-> 200, body |-> <<"json">>]
                            ELSE @]

\* from_request_parts: the hash, then the length of the three identifiers
PathError(rq) ==
    IF rq.dna_hash = "invalid" THEN "Invalid DNA hash"
    ELSE IF Chars(rq.coordinator_identifier) > MAX_IDENTIFIER_CHARS
    THEN "Identifier coordinator_identifier longer than 100 characters"
    ELSE IF Chars(rq.zome_name) > MAX_IDENTIFIER_CHARS
    THEN "Identifier zome_name longer than 100 characters"
    ELSE IF Chars(rq.fn_name) > MAX_IDENTIFIER_CHARS
    THEN "Identifier fn_name longer than 100 characters"
    ELSE "none"

\* Variant: the limit applies to the estimated decoded length
PayloadLength_decoded(payload) == (payload.raw_len * 3) \div 4

\* zome_call: payload.len(), the bytes of the query parameter as received
PayloadLength(payload) == payload.raw_len

\* format!("Payload exceeds {} bytes", payload_limit_bytes)
PayloadExceeds(limit) ==
    IF limit = 10 THEN "Payload exceeds 10 bytes" ELSE "Payload exceeds 12 bytes"

\* zome_call: the payload size check
SizeError(rq) ==
    IF rq.payload.present /\ PayloadLength(rq.payload) > rq.payload_limit_bytes
    THEN PayloadExceeds(rq.payload_limit_bytes)
    ELSE "none"

\* base64_json_to_hsb
TranscodeError(rq) ==
    IF ~rq.payload.present THEN "none"
    ELSE IF ~rq.payload.base64 THEN "Invalid base64 encoding"
    ELSE IF ~rq.payload.json THEN "Invalid JSON value"
    ELSE "none"

\* Outcomes of AppConnPool::call and of the transcoding of its answer: the
\* answer, an error of the called function, another error of the Conductor,
\* a transport error, or UpstreamUnavailable
PoolCallResults ==
    IF up THEN {"Ok", "Guest", "OtherError", "WsError", "UpstreamUnavailable"}
    ELSE {"UpstreamUnavailable"}

PathValidation ==
    /\ request.pc = "path"
    /\ request' = IF PathError(request) # "none"
                  THEN Fail(request, "path", RequestMalformed(PathError(request)))
                  ELSE Pass(request, "path")
    /\ UNCHANGED << conductor_apps, resolve, resolve_ops, cache_read, up,
                    adminVars, poolVars, configVars, portVars, transcodeVars >>

PayloadSize ==
    /\ request.pc = "size"
    /\ request' = IF SizeError(request) # "none"
                  THEN Fail(request, "size", RequestMalformed(SizeError(request)))
                  ELSE Pass(request, "size")
    /\ UNCHANGED << conductor_apps, resolve, resolve_ops, cache_read, up,
                    adminVars, poolVars, configVars, portVars, transcodeVars >>

\* try_get_valid_app ended with rs after list_apps returned res
ResolutionEnds(rs, res) ==
    request' = [(IF rs.err = "Ok"
                 THEN Pass(request, "resolve")
                 ELSE Fail(request, "resolve", AppSelection(rs.err)))
                EXCEPT !.list_apps = res]

\* try_get_valid_app, from the search of the cached list to its result
Resolution ==
    /\ request.pc = "resolve"
    /\ LET dna == request.dna_hash
           id == request.coordinator_identifier
           rs == [ResolveIdle EXCEPT !.dna_hash = dna,
                                     !.coordinator_identifier = id]
           r == choose_unique_app(dna, id, app_info_cache)
       IN IF CacheHit(r)
          THEN /\ ResolutionEnds(TryGetValidAppResult(rs, r, app_info_cache),
                                 "none")
               /\ UNCHANGED app_info_cache
          ELSE \E res \in AdminResults :
                  LET new_installed_apps ==
                          IF res = "Ok" THEN conductor_apps ELSE << >>
                  IN IF GotResponse(new_installed_apps)
                     THEN /\ app_info_cache' = new_installed_apps
                          /\ ResolutionEnds(
                                TryGetValidAppResult(rs,
                                    choose_unique_app(dna, id, new_installed_apps),
                                    new_installed_apps),
                                res)
                     ELSE /\ ResolutionEnds(
                                [rs EXCEPT !.pc = "done", !.err = "NotInstalled"],
                                res)
                          /\ UNCHANGED app_info_cache
    /\ UNCHANGED << conductor_apps, resolve, resolve_ops, cache_read, up,
                    adminVars, configVars, portVars, transcodeVars >>
    /\ UNCHANGED << tasks, obs, ops, app_clients, writer, ext_read,
                    cached_app_port, max_app_connections, epoch, iface_port,
                    live, nextId, now, failed, credentials >>

FunctionAuthorization ==
    /\ request.pc = "authorize"
    /\ request' = IF ~is_function_allowed(request.coordinator_identifier,
                                          request.zome_name, request.fn_name)
                  THEN Fail(request, "authorize", UnauthorizedFunction)
                  ELSE Pass(request, "authorize")
    /\ UNCHANGED << conductor_apps, resolve, resolve_ops, cache_read, up,
                    adminVars, poolVars, configVars, portVars, transcodeVars >>

Transcoding ==
    /\ request.pc = "transcode"
    /\ request' = IF TranscodeError(request) # "none"
                  THEN Fail(request, "transcode",
                            RequestMalformed(TranscodeError(request)))
                  ELSE Pass(request, "transcode")
    /\ UNCHANGED << conductor_apps, resolve, resolve_ops, cache_read, up,
                    adminVars, poolVars, configVars, portVars, transcodeVars >>

\* The pool call and the transcoding of its answer
PoolCall ==
    /\ request.pc = "call"
    /\ \E res \in PoolCallResults :
          request' =
              [(IF res = "Ok" THEN Pass(request, "call")
                ELSE IF res = "UpstreamUnavailable"
                THEN Fail(request, "call", UpstreamUnavailable)
                ELSE Fail(request, "call", HolochainError(res)))
               EXCEPT !.call = res]
    /\ UNCHANGED << conductor_apps, resolve, resolve_ops, cache_read, up,
                    adminVars, poolVars, configVars, portVars, transcodeVars >>

\* The Conductor stops or is cut off while the request is in progress
RequestConductorDown ==
    /\ request.pc # "done"
    /\ up
    /\ up' = FALSE
    /\ UNCHANGED << conductor_apps, resolve, resolve_ops, cache_read,
                    request, adminVars, poolVars, configVars, portVars, transcodeVars >>

\* The Conductor is reachable again
RequestConductorUp ==
    /\ request.pc # "done"
    /\ ~up
    /\ up' = TRUE
    /\ request' = [request EXCEPT !.down = FALSE]
    /\ UNCHANGED << conductor_apps, resolve, resolve_ops, cache_read,
                    adminVars, poolVars, configVars, portVars, transcodeVars >>

\* One request arrives at a gateway whose cache is empty or holds the apps
\* of the Conductor, which runs or not.  The path has a hash that
\* DnaHash::try_from accepts or not and identifiers of a few, of exactly
\* MAX_IDENTIFIER_CHARS and of one more characters.
InitRequest ==
    /\ tasks = [t \in Tasks |-> Idle]
    /\ obs = NoObs
    /\ app_clients = NoEntries
    /\ writer = 0
    /\ ext_read = FALSE
    /\ cached_app_port = 0
    /\ max_app_connections = MaxAppConnections
    /\ app_info_cache \in {<< >>, InstalledApps}
    /\ up \in BOOLEAN
    /\ epoch = 1
    /\ iface_port = 0
    /\ live = {}
    /\ nextId = 1
    /\ now = 0
    /\ failed = {}
    /\ credentials = {}
    /\ ops = 0
    /\ AdminInitState
    /\ admin_ops = 0
    /\ conductor_apps \in {InstalledApps, DuplicatedApps}
    /\ resolve = ResolveIdle
    /\ resolve_ops = 0
    /\ cache_read = FALSE
    /\ configuration = ConfigIdle
    /\ app_interfaces = << >>
    /\ connect = ConnectIdle
    /\ transcode = TranscodeIdle
    /\ request \in
          {NewRequest(dna, id, zome, fn, payload, limit) :
              dna \in {"d1", "d2", "invalid"},
              id \in {"app_1", "app_2", "app_3", "app_x", "id_100", "id_101"},
              zome \in {"zome_name", "id_101"},
              fn \in {"fn_name", "unauth_fn", "id_101"},
              payload \in Payloads, limit \in PayloadLimits}

NextRequest ==
    \/ PathValidation
    \/ PayloadSize
    \/ Resolution
    \/ FunctionAuthorization
    \/ Transcoding
    \/ PoolCall
    \/ RequestConductorDown
    \/ RequestConductorUp

SpecRequest == InitRequest /\ [][NextRequest]_vars

\* ------------------------------------------------------------------------
\* Configuration::try_new and the queries on its result (config.rs)
\* ------------------------------------------------------------------------
DEFAULT_PAYLOAD_LIMIT_BYTES == 10 * 1024
DEFAULT_MAX_APP_CONNECTIONS == 50
DEFAULT_ZOME_CALL_TIMEOUT == 10 * 1000

\* The allowed_app_ids argument, as the parts between its commas
AllowedAppIdStrings ==
    UNION {[1..n -> {"app_1", " app_2 ", "", "app_x"}] : n \in 1..MaxSegments}

\* The allowed_fns argument: AllowedFns::All or Restricted(set) per app id
AllowedFnsMaps ==
    UNION {[d -> {[all |-> TRUE, fns |-> {}],
                  [all |-> FALSE, fns |-> {<<"zome_name", "fn_name">>}],
                  [all |-> FALSE, fns |-> {}]}] :
              d \in SUBSET {"app_1", "app_2"}}

\* The numeric arguments, as strings
NumberStrings == {"", "0", "10", "not-a-number"}

\* str::trim
Trim(s) == IF s = " app_2 " THEN "app_2" ELSE s

\* str::parse::<u32>, parse::<u64>: Ok
Parses(s) == s \in {"0", "10"}

ParseInt(s) == IF s = "0" THEN 0 ELSE 10

\* AllowedAppIds::from_str: split(','), trim, empty parts dropped, HashSet
AllowedAppIdsFromStr(segments) ==
    {Trim(segments[i]) : i \in DOMAIN segments} \ {""}

\* Variant: no id is ever found missing
MissingAllowedFns_none(app_ids, fns) == {}

\* try_new: the ids of allowed_app_ids for which !allowed_fns.contains_key
MissingAllowedFns(app_ids, fns) == app_ids \ DOMAIN fns

ConfigErr(e) ==
    [ok |-> FALSE, err |-> e, payload_limit_bytes |-> 0, allowed_app_ids |-> {},
     allowed_fns |-> << >>, max_app_connections |-> 0, zome_call_timeout |-> 0]

\* Configuration::try_new
try_new(args) ==
    IF args.payload_limit_bytes # "" /\ ~Parses(args.payload_limit_bytes)
    THEN ConfigErr("IntParseError")
    ELSE IF MissingAllowedFns(AllowedAppIdsFromStr(args.allowed_app_ids),
                              args.allowed_fns) # {}
    THEN ConfigErr("Other")
    ELSE IF args.max_app_connections # "" /\ ~Parses(args.max_app_connections)
    THEN ConfigErr("IntParseError")
    ELSE IF args.zome_call_timeout # "" /\ ~Parses(args.zome_call_timeout)
    THEN ConfigErr("IntParseError")
    ELSE [ok |-> TRUE, err |-> "none",
          payload_limit_bytes |->
              IF args.payload_limit_bytes = "" THEN DEFAULT_PAYLOAD_LIMIT_BYTES
              ELSE ParseInt(args.payload_limit_bytes),
          allowed_app_ids |-> AllowedAppIdsFromStr(args.allowed_app_ids),
          allowed_fns |-> args.allowed_fns,
          max_app_connections |->
              IF args.max_app_connections = "" THEN DEFAULT_MAX_APP_CONNECTIONS
              ELSE ParseInt(args.max_app_connections),
          zome_call_timeout |->
              IF args.zome_call_timeout = "" THEN DEFAULT_ZOME_CALL_TIMEOUT
              ELSE ParseInt(args.zome_call_timeout)]

\* try_new(..) returns
TryNew ==
    /\ configuration.pc = "args"
    /\ configuration' = [configuration EXCEPT
                            !.pc = "parsed",
                            !.result = try_new(configuration.args)]
    /\ UNCHANGED << conductor_apps, resolve, resolve_ops, cache_read, up,
                    adminVars, poolVars, requestVars, portVars, transcodeVars >>

\* config.is_function_allowed(app_id, zome_name, fn_name) on the
\* Configuration try_new returned
IsFunctionAllowedQuery ==
    /\ configuration.pc \in {"parsed", "asked"}
    /\ configuration.result.ok
    /\ \E app_id \in {"app_1", "app_2", "app_x"},
          zome_name \in {"zome_name", "zome_x"},
          fn_name \in {"fn_name", "unauth_fn"} :
          configuration' =
              [configuration EXCEPT
                  !.pc = "asked",
                  !.query = [app_id |-> app_id, zome_name |-> zome_name,
                             fn_name |-> fn_name],
                  !.answer = IsFunctionAllowed(configuration.result.allowed_fns,
                                               app_id, zome_name, fn_name)]
    /\ UNCHANGED << conductor_apps, resolve, resolve_ops, cache_read, up,
                    adminVars, poolVars, requestVars, portVars, transcodeVars >>

\* try_new is called with arguments of every shape; the gateway does not
\* run yet
InitConfig ==
    /\ InitState
    /\ max_app_connections = MaxAppConnections
    /\ iface_port = 0
    /\ ops = 0
    /\ AdminInitState
    /\ admin_ops = 0
    /\ conductor_apps = InstalledApps
    /\ resolve = ResolveIdle
    /\ resolve_ops = 0
    /\ cache_read = FALSE
    /\ request = RequestIdle
    /\ app_interfaces = << >>
    /\ connect = ConnectIdle
    /\ transcode = TranscodeIdle
    /\ configuration \in
          [pc : {"args"},
           args : [payload_limit_bytes : NumberStrings,
                   allowed_app_ids : AllowedAppIdStrings,
                   allowed_fns : AllowedFnsMaps,
                   max_app_connections : NumberStrings,
                   zome_call_timeout : NumberStrings],
           result : {ConfigErr("none")},
           query : {[app_id |-> "none", zome_name |-> "none",
                     fn_name |-> "none"]},
           answer : {FALSE}]

NextConfig ==
    \/ TryNew
    \/ IsFunctionAllowedQuery

SpecConfig == InitConfig /\ [][NextConfig]_vars

\* ------------------------------------------------------------------------
\* The app port (AppConnPool::get_app_port) over a run of connections
\* ------------------------------------------------------------------------
\* An AppInterfaceInfo is [allowed_origins, installed_app_id]; the interface
\* at position p of the Conductor's list listens on port p.
\* The closure of `find` in get_app_port: the filter of the interface is
\* unset or names the app, and allowed_origins.is_allowed(HTTP_GW_ORIGIN).
Qualifies(app_interface, installed_app_id) ==
    /\ app_interface.installed_app_id \in {"none", installed_app_id}
    /\ app_interface.allowed_origins \in {"*", "hc-http-gw"}

\* app_interfaces.into_iter().find(..): the port of the first interface
\* that qualifies, 0 if there is none
selected_app_interface(interfaces, installed_app_id) ==
    LET q == {p \in 1..Len(interfaces) : Qualifies(interfaces[p], installed_app_id)}
    IN IF q = {} THEN 0 ELSE CHOOSE p \in q : \A r \in q : p <= r

\* Variant: the port is not cached
CachedAfterResolve_none(app_port) == 0

\* *self.cached_app_port.write() = Some(app_port)
CachedAfterResolve(app_port) == app_port

\* get_or_connect_app_client ends: one more connection, made or failed
ConnectEnd(ok) ==
    [connect EXCEPT !.pc = "idle", !.port = 0,
                    !.nOk = IF ok THEN @ + 1 ELSE @,
                    !.nFailed = IF ok THEN @ ELSE @ + 1]

\* get_or_connect_app_client(app) on a pool without an entry for the app:
\* attempt_connect_app_ws begins under the write guard
ConnectStart ==
    /\ connect.pc = "idle"
    /\ connect.nOk + connect.nFailed < MaxPortOps
    /\ \E app \in PoolApps : connect' = [connect EXCEPT !.pc = "port", !.app = app]
    /\ UNCHANGED << cached_app_port, app_interfaces, portRest, transcodeVars >>

\* get_app_port: the cached port, or list_app_interfaces and the first
\* interface that qualifies
GetAppPort ==
    /\ connect.pc = "port"
    /\ IF cached_app_port # 0
       THEN /\ connect' = [connect EXCEPT !.pc = "connect", !.port = cached_app_port]
            /\ UNCHANGED cached_app_port
       ELSE \E res \in {"Ok", "OtherError"} :
               LET app_port == selected_app_interface(app_interfaces, connect.app)
                   listed == [connect EXCEPT
                                 !.nList = @ + 1,
                                 !.qualified = @ \/ (connect.nList = 0 /\ app_port # 0)]
               IN IF res # "Ok"
                  THEN /\ connect' = ConnectEnd(FALSE)
                       /\ UNCHANGED cached_app_port
                  ELSE IF app_port # 0
                  THEN /\ connect' = [listed EXCEPT !.pc = "connect", !.port = app_port]
                       /\ cached_app_port' = CachedAfterResolve(app_port)
                  ELSE /\ connect' = [listed EXCEPT !.pc = "attach"]
                       /\ UNCHANGED cached_app_port
    /\ UNCHANGED << app_interfaces, portRest, transcodeVars >>

\* get_app_port: attach_app_interface(0, AllowedOrigins::from(HTTP_GW_ORIGIN), None)
AttachAppInterface ==
    /\ connect.pc = "attach"
    /\ \E res \in {"Ok", "OtherError"} :
          LET app_port == Len(app_interfaces) + 1
          IN IF res # "Ok"
             THEN /\ connect' = ConnectEnd(FALSE)
                  /\ UNCHANGED << cached_app_port, app_interfaces >>
             ELSE /\ app_interfaces' =
                        Append(app_interfaces,
                               [allowed_origins |-> "hc-http-gw",
                                installed_app_id |-> "none"])
                  /\ connect' = [connect EXCEPT !.pc = "connect", !.port = app_port,
                                                !.nAttach = @ + 1]
                  /\ cached_app_port' = CachedAfterResolve(app_port)
    /\ UNCHANGED << portRest, transcodeVars >>

\* attempt_connect_app_ws: issue_app_auth_token, then the handshake with
\* Origin: hc-http-gw and the token of the app.  The Conductor accepts it
\* only on an interface that allows the origin and serves the app; it may
\* also fail there (a timeout).
ConnectAppWs ==
    /\ connect.pc = "connect"
    /\ \E res \in {"Ok", "OtherError"} :
          IF res # "Ok"
          THEN /\ connect' = ConnectEnd(FALSE)
               /\ UNCHANGED cached_app_port
          ELSE \E accepted \in
                  IF /\ connect.port \in 1..Len(app_interfaces)
                     /\ Qualifies(app_interfaces[connect.port], connect.app)
                  THEN BOOLEAN ELSE {FALSE} :
                  LET tried == [connect EXCEPT
                                   !.handshakes = @ \cup {<<connect.app, connect.port>>}]
                  IN IF accepted
                     THEN /\ connect' = [tried EXCEPT
                                            !.pc = "idle", !.port = 0,
                                            !.nOk = @ + 1,
                                            !.connected = @ \cup {connect.app}]
                          /\ UNCHANGED cached_app_port
                     ELSE /\ connect' = [tried EXCEPT
                                            !.pc = "idle", !.port = 0,
                                            !.nFailed = @ + 1]
                          /\ cached_app_port' = PortAfterFailedConnect(cached_app_port)
    /\ UNCHANGED << app_interfaces, portRest, transcodeVars >>

\* A new pool on a Conductor that may already have app interfaces
InitPort ==
    /\ InitState
    /\ max_app_connections = MaxAppConnections
    /\ iface_port = 0
    /\ ops = 0
    /\ AdminInitState
    /\ admin_ops = 0
    /\ conductor_apps = InstalledApps
    /\ resolve = ResolveIdle
    /\ resolve_ops = 0
    /\ cache_read = FALSE
    /\ request = RequestIdle
    /\ configuration = ConfigIdle
    /\ \E n \in 0..MaxInterfaces :
          app_interfaces \in
             [1..n -> [allowed_origins : {"*", "hc-http-gw", "other"},
                       installed_app_id : {"none", "app_1", "app_2"}]]
    /\ connect = [pc |-> "idle", app |-> "none", port |-> 0, nOk |-> 0,
                  nFailed |-> 0, nList |-> 0, nAttach |-> 0,
                  qualified |-> FALSE, connected |-> {}, handshakes |-> {}]
    /\ transcode = TranscodeIdle

NextPort ==
    \/ ConnectStart
    \/ GetAppPort
    \/ AttachAppInterface
    \/ ConnectAppWs

SpecPort == InitPort /\ [][NextPort]_vars

\* ------------------------------------------------------------------------
\* The earlier pool (app_conn_pool.rs): attempt_connect_app_ws calls itself
\* ------------------------------------------------------------------------
\* retries - 1 on an i8: below -128 a release build wraps around
RetriesAfterFailure(retries) == ((retries - 1 + 128) % 256) - 128

\* get_or_connect_app_client on a pool without an entry for the app:
\* attempt_connect_app_ws(installed_app_id, admin_ws, 1)
LegacyConnectStart ==
    /\ connect.pc = "idle"
    /\ connect.nOk + connect.nFailed < MaxPortOps
    /\ \E app \in PoolApps :
          connect' = [connect EXCEPT !.pc = "port", !.app = app,
                                     !.retries = 1, !.tries = 0]
    /\ UNCHANGED << cached_app_port, app_interfaces, portRest, transcodeVars >>

\* attempt_connect_app_ws: issue_app_auth_token and the handshake; when the
\* handshake fails the cached port is cleared and the function calls itself
\* with retries - 1, whatever retries is.  A debug build panics where the
\* subtraction overflows.
LegacyConnectAppWs ==
    /\ connect.pc = "connect"
    /\ \E res \in {"Ok", "OtherError"} :
          IF res # "Ok"
          THEN /\ connect' = ConnectEnd(FALSE)
               /\ UNCHANGED cached_app_port
          ELSE \E accepted \in
                  IF /\ connect.port \in 1..Len(app_interfaces)
                     /\ Qualifies(app_interfaces[connect.port], connect.app)
                  THEN BOOLEAN ELSE {FALSE} :
                  LET tried == [connect EXCEPT
                                   !.tries = @ + 1,
                                   !.handshakes = @ \cup {<<connect.app, connect.port>>}]
                  IN IF accepted
                     THEN /\ connect' = [tried EXCEPT
                                            !.pc = "idle", !.port = 0,
                                            !.nOk = @ + 1,
                                            !.connected = @ \cup {connect.app}]
                          /\ UNCHANGED cached_app_port
                     ELSE /\ connect.tries < MaxLegacyTries
                          /\ cached_app_port' = PortAfterFailedConnect(cached_app_port)
                          /\ \/ connect' = [tried EXCEPT
                                               !.pc = "port", !.port = 0,
                                               !.retries = RetriesAfterFailure(@)]
                             \/ /\ connect.retries = -128
                                /\ connect' = [tried EXCEPT !.pc = "panicked"]
    /\ UNCHANGED << app_interfaces, portRest, transcodeVars >>

InitLegacy ==
    /\ InitState
    /\ max_app_connections = MaxAppConnections
    /\ iface_port = 0
    /\ ops = 0
    /\ AdminInitState
    /\ admin_ops = 0
    /\ conductor_apps = InstalledApps
    /\ resolve = ResolveIdle
    /\ resolve_ops = 0
    /\ cache_read = FALSE
    /\ request = RequestIdle
    /\ configuration = ConfigIdle
    /\ transcode = TranscodeIdle
    /\ \E n \in 0..MaxInterfaces :
          app_interfaces \in
             [1..n -> [allowed_origins : {"*", "hc-http-gw", "other"},
                       installed_app_id : {"none", "app_1", "app_2"}]]
    /\ connect = [pc |-> "idle", app |-> "none", port |-> 0, nOk |-> 0,
                  nFailed |-> 0, nList |-> 0, nAttach |-> 0,
                  qualified |-> FALSE, connected |-> {}, handshakes |-> {},
                  retries |-> 0, tries |-> 0]

NextLegacy ==
    \/ LegacyConnectStart
    \/ GetAppPort
    \/ AttachAppInterface
    \/ LegacyConnectAppWs

SpecLegacy == InitLegacy /\ [][NextLegacy]_vars

\* ------------------------------------------------------------------------
\* Transcoding (transcode.rs)
\* ------------------------------------------------------------------------
\* A serde_json::Value: t is "null", "bool", "num", "str", "arr" or "obj";
\* the characters of a string and the members of an object are values too
\* ("char" with its byte in n, "member" with the key and the value as
\* items), so that all values have one shape.  Texts and wire data are
\* sequences of bytes.
J(t, n, items) == [t |-> t, n |-> n, items |-> items]

\* Value::String of an ASCII text
JStr(bytes) == J("str", 0, [i \in 1..Len(bytes) |-> J("char", bytes[i], << >>)])

\* The array nested d levels deep around null
RECURSIVE Nested(_)
Nested(d) == IF d = 0 THEN J("null", 0, << >>) ELSE J("arr", 0, << Nested(d - 1) >>)

\* The concatenation of the byte sequences parts[i..], sep between them
RECURSIVE Join(_, _, _)
Join(parts, sep, i) ==
    IF i > Len(parts) THEN << >>
    ELSE (IF i > 1 THEN sep ELSE << >>) \o parts[i] \o Join(parts, sep, i + 1)

\* serde_json::to_string / Value::to_string: the compact text
RECURSIVE to_string(_)
to_string(v) ==
    LET RECURSIVE Digits(_)
        Digits(n) == IF n < 10 THEN << 48 + n >>
                     ELSE Digits(n \div 10) \o << 48 + (n % 10) >>
    IN CASE v.t = "null" -> << 110, 117, 108, 108 >>
         [] v.t = "bool" -> IF v.n = 1 THEN << 116, 114, 117, 101 >>
                            ELSE << 102, 97, 108, 115, 101 >>
         [] v.t = "num" -> Digits(v.n)
         [] v.t = "str" -> << 34 >> \o [i \in 1..Len(v.items) |-> v.items[i].n] \o << 34 >>
         [] v.t = "arr" ->
               << 91 >> \o Join([i \in 1..Len(v.items) |-> to_string(v.items[i])],
                                << 44 >>, 1) \o << 93 >>
         [] v.t = "obj" ->
               << 123 >> \o
               Join([i \in 1..Len(v.items) |->
                        to_string(v.items[i].items[1]) \o << 58 >> \o
                        to_string(v.items[i].items[2])], << 44 >>, 1) \o << 125 >>

NoValue == J("none", 0, << >>)

\* A parse that failed, and one that produced v and stopped before next
Bad == [ok |-> FALSE, v |-> NoValue, next |-> 0]
Good(v, next) == [ok |-> TRUE, v |-> v, next |-> next]

\* serde_json's parser from position i of the text: parse_value reads one
\* value; every array and object takes one from remaining_depth and is
\* refused when none is left.  ParseRest reads the elements that follow
\* position i of an array (close = 93) or the members of an object
\* (close = 125) into acc.
RECURSIVE parse_value(_, _, _), ParseRest(_, _, _, _, _)
parse_value(text, i, remaining_depth) ==
    LET at(k) == IF k <= Len(text) THEN text[k] ELSE 0
        word(w) == /\ i + Len(w) - 1 <= Len(text)
                   /\ \A k \in 1..Len(w) : text[i + k - 1] = w[k]
        RECURSIVE NumEnd(_), StrEnd(_), NumVal(_, _)
        NumEnd(k) == IF at(k) \in 48..57 THEN NumEnd(k + 1) ELSE k
        StrEnd(k) == IF k > Len(text) THEN 0
                     ELSE IF text[k] = 34 THEN k ELSE StrEnd(k + 1)
        NumVal(k, e) == IF k >= e THEN 0
                        ELSE NumVal(k, e - 1) * 10 + (text[e - 1] - 48)
    IN IF i > Len(text) THEN Bad
       ELSE IF word(<< 110, 117, 108, 108 >>) THEN Good(J("null", 0, << >>), i + 4)
       ELSE IF word(<< 116, 114, 117, 101 >>) THEN Good(J("bool", 1, << >>), i + 4)
       ELSE IF word(<< 102, 97, 108, 115, 101 >>) THEN Good(J("bool", 0, << >>), i + 5)
       ELSE IF text[i] \in 48..57
            THEN IF text[i] = 48 /\ at(i + 1) \in 48..57 THEN Bad
                 ELSE Good(J("num", NumVal(i, NumEnd(i)), << >>), NumEnd(i))
       ELSE IF text[i] = 34
            THEN IF StrEnd(i + 1) = 0 THEN Bad
                 ELSE Good(JStr(SubSeq(text, i + 1, StrEnd(i + 1) - 1)), StrEnd(i + 1) + 1)
       ELSE IF text[i] \in {91, 123}
            THEN LET close == IF text[i] = 91 THEN 93 ELSE 125
                     t == IF text[i] = 91 THEN "arr" ELSE "obj"
                 IN IF remaining_depth - 1 = 0 THEN Bad
                    ELSE IF at(i + 1) = close THEN Good(J(t, 0, << >>), i + 2)
                    ELSE ParseRest(text, i + 1, remaining_depth - 1, close, << >>)
       ELSE Bad

ParseRest(text, i, remaining_depth, close, acc) ==
    LET at(k) == IF k <= Len(text) THEN text[k] ELSE 0
        key == IF close = 125 THEN parse_value(text, i, remaining_depth) ELSE Bad
        colon == close = 125 /\ key.ok /\ key.v.t = "str" /\ at(key.next) = 58
        val == IF close = 93 THEN parse_value(text, i, remaining_depth)
               ELSE IF colon THEN parse_value(text, key.next + 1, remaining_depth)
               ELSE Bad
        item == IF close = 93 THEN val.v ELSE J("member", 0, << key.v, val.v >>)
    IN IF ~val.ok THEN Bad
       ELSE IF at(val.next) = close
            THEN Good(J(IF close = 93 THEN "arr" ELSE "obj", 0, Append(acc, item)),
                      val.next + 1)
       ELSE IF at(val.next) = 44
            THEN ParseRest(text, val.next + 1, remaining_depth, close, Append(acc, item))
       ELSE Bad

\* serde_json::from_slice::<Value>: one value and nothing after it.  The
\* parser starts with remaining_depth = 128; MaxNesting stands for it, so
\* that the texts at the limit stay short.
from_slice(text) ==
    LET r == parse_value(text, 1, MaxNesting)
    IN IF r.ok /\ r.next = Len(text) + 1 THEN r ELSE Bad

\* The URL-safe alphabet: the character of a sextet
UrlSafe(s) ==
    IF s < 26 THEN 65 + s
    ELSE IF s < 52 THEN 97 + (s - 26)
    ELSE IF s < 62 THEN 48 + (s - 52)
    ELSE IF s = 62 THEN 45 ELSE 95

\* BASE64_URL_SAFE.encode: three bytes give four characters, '=' pads
RECURSIVE Base64Encode(_)
Base64Encode(bytes) ==
    LET n == Len(bytes)
        b1 == bytes[1]
        b2 == IF n >= 2 THEN bytes[2] ELSE 0
        b3 == IF n >= 3 THEN bytes[3] ELSE 0
    IN IF n = 0 THEN << >>
       ELSE << UrlSafe(b1 \div 4),
               UrlSafe((b1 % 4) * 16 + b2 \div 16),
               IF n >= 2 THEN UrlSafe((b2 % 16) * 4 + b3 \div 64) ELSE 61,
               IF n >= 3 THEN UrlSafe(b3 % 64) ELSE 61 >>
            \o (IF n > 3 THEN Base64Encode(SubSeq(bytes, 4, n)) ELSE << >>)

\* BASE64_URL_SAFE.decode: groups of four characters of the alphabet, '='
\* only as padding at the end
RECURSIVE Base64Decode(_)
Base64Decode(chars) ==
    LET n == Len(chars)
        sextet(c) == IF \E s \in 0..63 : UrlSafe(s) = c
                     THEN CHOOSE s \in 0..63 : UrlSafe(s) = c ELSE 64
        s1 == sextet(chars[1])
        s2 == sextet(chars[2])
        s3 == sextet(chars[3])
        s4 == sextet(chars[4])
        pad == IF chars[4] # 61 THEN 0 ELSE IF chars[3] # 61 THEN 1 ELSE 2
        rest == IF n > 4 THEN Base64Decode(SubSeq(chars, 5, n))
                ELSE [ok |-> TRUE, bytes |-> << >>]
        group == << s1 * 4 + s2 \div 16 >>
                 \o (IF pad < 2 THEN << (s2 % 16) * 16 + s3 \div 4 >> ELSE << >>)
                 \o (IF pad < 1 THEN << (s3 % 4) * 64 + s4 >> ELSE << >>)
    IN IF n = 0 THEN [ok |-> TRUE, bytes |-> << >>]
       ELSE IF n < 4 THEN [ok |-> FALSE, bytes |-> << >>]
       ELSE IF \/ s1 = 64 \/ s2 = 64
               \/ (pad < 2 /\ s3 = 64) \/ (pad < 1 /\ s4 = 64)
               \/ (pad > 0 /\ n > 4)
               \/ ~rest.ok
            THEN [ok |-> FALSE, bytes |-> << >>]
       ELSE [ok |-> TRUE, bytes |-> group \o rest.bytes]

\* ExternIO::encode of a Value: MessagePack (nil, false/true, positive
\* fixint or uint 8, fixstr, fixarray, fixmap)
RECURSIVE ExternEncode(_)
ExternEncode(v) ==
    CASE v.t = "null" -> << 192 >>
      [] v.t = "bool" -> << 194 + v.n >>
      [] v.t = "num" -> IF v.n < 128 THEN << v.n >> ELSE << 204, v.n >>
      [] v.t = "str" -> << 160 + Len(v.items) >> \o [i \in 1..Len(v.items) |-> v.items[i].n]
      [] v.t = "arr" ->
            << 144 + Len(v.items) >>
            \o Join([i \in 1..Len(v.items) |-> ExternEncode(v.items[i])], << >>, 1)
      [] v.t = "obj" ->
            << 128 + Len(v.items) >>
            \o Join([i \in 1..Len(v.items) |->
                        ExternEncode(v.items[i].items[1])
                        \o ExternEncode(v.items[i].items[2])], << >>, 1)

\* ExternIO::decode::<Value> from position i: DecodeItems reads the count
\* elements (or key and value pairs) that follow into acc
RECURSIVE ExternDecodeAt(_, _), DecodeItems(_, _, _, _, _)
ExternDecodeAt(bytes, i) ==
    IF i > Len(bytes) THEN Bad
    ELSE LET b == bytes[i]
         IN IF b < 128 THEN Good(J("num", b, << >>), i + 1)
            ELSE IF b < 144 THEN DecodeItems(bytes, i + 1, b - 128, "obj", << >>)
            ELSE IF b < 160 THEN DecodeItems(bytes, i + 1, b - 144, "arr", << >>)
            ELSE IF b < 192
                 THEN IF i + (b - 160) > Len(bytes) THEN Bad
                      ELSE Good(JStr(SubSeq(bytes, i + 1, i + (b - 160))), i + (b - 160) + 1)
            ELSE IF b = 192 THEN Good(J("null", 0, << >>), i + 1)
            ELSE IF b \in {194, 195} THEN Good(J("bool", b - 194, << >>), i + 1)
            ELSE IF b = 204 /\ i + 1 <= Len(bytes) THEN Good(J("num", bytes[i + 1], << >>), i + 2)
            ELSE Bad

DecodeItems(bytes, i, count, t, acc) ==
    IF count = 0 THEN Good(J(t, 0, acc), i)
    ELSE LET first == ExternDecodeAt(bytes, i)
             second == IF t = "obj" /\ first.ok THEN ExternDecodeAt(bytes, first.next)
                       ELSE first
             item == IF t = "obj" THEN J("member", 0, << first.v, second.v >>)
                     ELSE first.v
         IN IF ~second.ok \/ (t = "obj" /\ first.v.t # "str") THEN Bad
            ELSE DecodeItems(bytes, second.next, count - 1, t, Append(acc, item))

ExternDecode(bytes) ==
    LET r == ExternDecodeAt(bytes, 1)
    IN IF r.ok /\ r.next = Len(bytes) + 1 THEN r ELSE Bad

\* Variant: the payload is ignored and the unit value encoded
base64_json_to_hsb_unit(present, payload) ==
    [ok |-> TRUE, err |-> "none", bytes |-> << 192 >>]

\* base64_json_to_hsb(maybe_base64_encoded_payload): present is FALSE for
\* None
base64_json_to_hsb(present, payload) ==
    LET base64_decoded_payload == Base64Decode(payload)
        json_payload == IF present THEN from_slice(base64_decoded_payload.bytes)
                        ELSE Good(J("null", 0, << >>), 0)
    IN IF present /\ ~base64_decoded_payload.ok
       THEN [ok |-> FALSE, err |-> "Invalid base64 encoding", bytes |-> << >>]
       ELSE IF ~json_payload.ok
       THEN [ok |-> FALSE, err |-> "Invalid JSON value", bytes |-> << >>]
       ELSE [ok |-> TRUE, err |-> "none", bytes |-> ExternEncode(json_payload.v)]

\* hsb_to_json(hsb_encoded_response)
hsb_to_json(hsb_encoded_response) ==
    LET json_value == ExternDecode(hsb_encoded_response)
    IN IF json_value.ok THEN [ok |-> TRUE, text |-> to_string(json_value.v)]
       ELSE [ok |-> FALSE, text |-> << >>]

\* The values transcoded: scalars, arrays of two of them, objects, and the
\* arrays nested as deep as the parser allows and one level deeper
JsonValues ==
    LET scalars == {J("null", 0, << >>), J("bool", 0, << >>), J("bool", 1, << >>),
                    J("num", 0, << >>), J("num", 7, << >>), J("num", 200, << >>),
                    JStr(<< >>), JStr(<< 98, 63, 63 >>)}
    IN scalars
       \cup {J("arr", 0, << >>), J("obj", 0, << >>)}
       \cup {J("arr", 0, << a, b >>) : a \in scalars, b \in scalars}
       \cup {J("obj", 0, << J("member", 0, << JStr(<< 97 >>), a >>),
                            J("member", 0, << JStr(<< 98, 99 >>),
                                              J("arr", 0, << a >>) >>) >>) :
                a \in scalars}
       \cup {Nested(MaxNesting - 2), Nested(MaxNesting - 1), Nested(MaxNesting)}

\* A request with ?payload=..., or a response of the zome, is transcoded
Base64JsonToHsb ==
    /\ transcode.pc = "payload"
    /\ LET hsb == base64_json_to_hsb(transcode.present, transcode.payload)
       IN transcode' = [transcode EXCEPT
                           !.pc = "inbound",
                           !.hsb = hsb,
                           !.decoded = IF hsb.ok THEN ExternDecode(hsb.bytes) ELSE Bad]
    /\ UNCHANGED << cached_app_port, portVars, portRest >>

\* The zome returns the value of the request, as ExternIO; where the
\* request carried none, the bytes of its payload come back as they are.
HsbToJson ==
    /\ transcode.pc = "inbound"
    /\ LET response == IF transcode.v.t # "none" THEN ExternEncode(transcode.v)
                       ELSE transcode.payload
       IN transcode' = [transcode EXCEPT !.pc = "outbound",
                                         !.json = hsb_to_json(response)]
    /\ UNCHANGED << cached_app_port, portVars, portRest >>

\* The payloads of the tests: base64 of the JSON text of a value, the JSON
\* text itself, base64 of the text "invalid", and no payload
InitTranscode ==
    /\ InitState
    /\ max_app_connections = MaxAppConnections
    /\ iface_port = 0
    /\ ops = 0
    /\ AdminInitState
    /\ admin_ops = 0
    /\ conductor_apps = InstalledApps
    /\ resolve = ResolveIdle
    /\ resolve_ops = 0
    /\ cache_read = FALSE
    /\ request = RequestIdle
    /\ configuration = ConfigIdle
    /\ app_interfaces = << >>
    /\ connect = ConnectIdle
    /\ \E present \in BOOLEAN, v \in JsonValues \cup {NoValue},
          kind \in {"base64", "plain", "invalid"} :
          /\ present = (v # NoValue \/ kind = "invalid")
          /\ (v = NoValue) => kind \in {"base64", "invalid"}
          /\ transcode =
                [pc |-> "payload", present |-> present,
                 v |-> IF kind = "base64" THEN v ELSE NoValue,
                 payload |->
                    IF ~present THEN << >>
                    ELSE IF kind = "invalid"
                         THEN Base64Encode(<< 105, 110, 118, 97, 108, 105, 100 >>)
                    ELSE IF kind = "plain" THEN to_string(v)
                    ELSE Base64Encode(to_string(v)),
                 hsb |-> [ok |-> FALSE, err |-> "none", bytes |-> << >>],
                 decoded |-> Bad,
                 json |-> [ok |-> FALSE, text |-> << >>]]

NextTranscode ==
    \/ Base64JsonToHsb
    \/ HsbToJson

SpecTranscode == InitTranscode /\ [][NextTranscode]_vars


\* ------------------------------------------------------------------------
\* Properties
\* ------------------------------------------------------------------------

C2_PoolBounded ==
    writer = 0 => Cardinality(DOMAIN app_clients) <= max_app_connections

\* C2: the pool is full, no task holds the write guard, and more connections
\* have been inserted than the pool may hold.
C2_Witness ==
    /\ writer = 0
    /\ max_app_connections > 0
    /\ Cardinality(DOMAIN app_clients) = max_app_connections
    /\ nextId > max_app_connections + 1
    /\ \A t \in Tasks : tasks[t].pc \in {"idle", "done"}

C4_OkEndsCall ==
    /\ obs.nOk <= 1
    /\ obs.nOk = 1 =>
          /\ tasks[Observed].pc = "done"
          /\ tasks[Observed].result = "Ok"
          /\ obs.nF = obs.nWs + 1

\* C4: a call has returned Ok from its third invocation of f.
C4_Witness ==
    /\ tasks[Observed].pc = "done"
    /\ tasks[Observed].result = "Ok"
    /\ obs.nOk = 1
    /\ obs.nF = 3

\* C5 as stated: when f failed on the dead pooled connection of A and the
\* Conductor answered for the rest of the call, the call returns f's success
\* and the pool entry of A is then a connection established after the failure.
C5_EntryIsNew ==
    LET tk == tasks[Observed]
    IN (tk.op = "http" /\ tk.pc = "done" /\ obs.fresh > 0) =>
          /\ tk.result = "Ok"
          /\ tk.app \in DOMAIN app_clients
          /\ app_clients[tk.app].id >= obs.fresh

\* C5, amended: when f failed on the dead pooled connection of A and the
\* Conductor answered for the rest of the call, the call returns f's success,
\* obtained on a connection established after the failure, also when the
\* cached app port was stale; the pool entry of A, if the pool still holds
\* one when the call returns, is a connection established after the failure.
C5_ReconnectSucceeds ==
    LET tk == tasks[Observed]
    IN (tk.op = "http" /\ tk.pc = "done" /\ obs.fresh > 0) =>
          /\ tk.result = "Ok"
          /\ obs.nOk = 1
          /\ tk.conn >= obs.fresh
          /\ tk.app \in DOMAIN app_clients
                => app_clients[tk.app].id >= obs.fresh

\* C5: a call found a dead connection in the pool and a stale cached port,
\* connected on its third attempt and returned Ok; its new connection is the
\* pool entry of its app.
C5_Witness ==
    /\ tasks[Observed].pc = "done"
    /\ tasks[Observed].result = "Ok"
    /\ obs.fresh > 0
    /\ obs.nGet = 3
    /\ obs.nF = 2
    /\ tasks[Observed].app \in DOMAIN app_clients
    /\ app_clients[tasks[Observed].app].id = tasks[Observed].conn

\* C6: the step in which f returns an error that is not a websocket error
\* ends Pool.call with that error; it neither changes the pool, nor takes
\* the write guard, nor opens a connection, nor starts another attempt.
C6_OtherErrorReturns ==
    [][(/\ obs'.nF = obs.nF + 1
        /\ obs'.nOk = obs.nOk
        /\ obs'.nWs = obs.nWs)
       => /\ tasks'[Observed].pc = "done"
          /\ tasks'[Observed].result = "OtherError"
          /\ tasks'[Observed].conn = tasks[Observed].conn
          /\ app_clients' = app_clients
          /\ writer' = writer
          /\ nextId' = nextId
          /\ cached_app_port' = cached_app_port
          /\ obs'.nGet = obs.nGet]_vars

\* C6: a call has returned the error of f after a single invocation, while
\* another task held a read guard on the pool from before the call began.
C6_Witness ==
    /\ tasks[Observed].pc = "done"
    /\ tasks[Observed].result = "OtherError"
    /\ obs.nF = 1
    /\ obs.nGet = 1
    /\ obs.held
    /\ ext_read
    /\ app_clients[tasks[Observed].app].id = tasks[Observed].conn

\* C7 as stated: once f has failed with a websocket error, Pool.call runs f
\* exactly once more, so at most twice in all, and a second websocket error
\* of f is what the call returns.
C7_OneReconnect ==
    LET tk == tasks[Observed]
    IN obs.nWs >= 1 =>
          /\ obs.nF <= 2
          /\ (tk.pc = "done" /\ obs.nWs = 2) => tk.result = "WsError"

\* C8 as stated: no get_or_connect_app_client returns a connection on which
\* a call has already failed with a websocket error.
C8_NeverHandsOutFailed ==
    [][\A t \in Tasks :
          (/\ tasks[t].pc \in {"gc_read", "gc_write", "gc_evict"}
           /\ tasks'[t].pc \in {"execute", "done"}
           /\ tasks'[t].conn # 0)
          => tasks'[t].conn \notin failed]_vars

\* C8, amended: when f fails with a websocket error on the pooled connection
\* of A, the call removes the entry of A before its next attempt or its
\* return; a connection on which a call has failed stays in the pool only
\* while such a removal is pending, and only a get_or_connect_app_client
\* that runs before the removal can still return it.
C8_RemovedBeforeRetry ==
    /\ \A t \in HttpTasks :
          (tasks[t].op = "http" /\ tasks[t].conn \in failed)
             => tasks[t].pc = "remove"
    /\ \A a \in DOMAIN app_clients :
          app_clients[a].id \in failed
             => \E t \in HttpTasks : /\ tasks[t].pc = "remove"
                                     /\ tasks[t].app = a
                                     /\ tasks[t].conn = app_clients[a].id

\* C8: f failed with a websocket error on the pooled connection of A, the
\* call has removed the entry of A and is about to look A up again.
C8_Witness ==
    /\ tasks[Observed].pc = "gc_read"
    /\ tasks[Observed].attempt = 1
    /\ obs.nWs = 1
    /\ obs.nGet = 2
    /\ tasks[Observed].app \notin DOMAIN app_clients
    /\ app_clients # NoEntries

\* C9: a task establishes a connection for app A (port resolution, token,
\* handshake, authorization) only while it holds the write guard and the
\* pool has no entry for A, so at most one task does so at a time and a
\* further handshake for A needs the entry of A to be gone; a
\* get_or_connect_app_client that finds an entry for A returns the
\* connection of that entry and opens none.
C9_SingleEstablishment ==
    /\ [](\A t \in Tasks :
             tasks[t].pc \in {"ca_port", "ca_attach", "ca_token",
                              "ca_handshake", "ca_authorize"}
                => /\ writer = t
                   /\ tasks[t].app \notin DOMAIN app_clients)
    /\ [][/\ nextId' # nextId =>
                /\ writer # 0
                /\ tasks[writer].pc = "ca_handshake"
                /\ tasks[writer].app \notin DOMAIN app_clients
          /\ \A t \in Tasks :
                (/\ tasks[t].pc \in {"gc_read", "gc_write"}
                 /\ tasks[t].app \in DOMAIN app_clients
                 /\ tasks'[t] # tasks[t])
                => /\ tasks'[t].conn = app_clients[tasks[t].app].id
                   /\ tasks'[t].pc \in {"execute", "done", "gc_evict"}
                   /\ nextId' = nextId]_vars

\* C9: two tasks asked for the same app while the pool was empty; a single
\* connection was ever opened and both tasks hold it.
C9_Witness ==
    /\ tasks[1].pc = "execute"
    /\ tasks[2].pc = "done"
    /\ tasks[2].op = "get"
    /\ tasks[1].app = tasks[2].app
    /\ tasks[1].conn = tasks[2].conn
    /\ tasks[1].conn = 1
    /\ nextId = 2
    /\ ops = 0

\* C10: the pool exceeds max_app_connections only between an insertion and
\* the size check of the same critical section, and then by one entry; the
\* size check removes exactly one entry, whose opened_at is the smallest, and
\* leaves every other entry unchanged.  With max_app_connections = 2 and
\* app_2 opened before app_1 before app_3, the pool is left as
\* {app_1, app_3}.
C10_EvictsOldest ==
    /\ [](Cardinality(DOMAIN app_clients) > max_app_connections
             => /\ writer # 0
                /\ tasks[writer].pc = "gc_evict"
                /\ tasks[writer].app \in DOMAIN app_clients
                /\ Cardinality(DOMAIN app_clients) = max_app_connections + 1)
    /\ [][\A t \in Tasks :
             (tasks[t].pc = "gc_evict" /\ tasks'[t].pc # "gc_evict") =>
                /\ writer = t /\ writer' = 0
                /\ IF Cardinality(DOMAIN app_clients) > max_app_connections
                   THEN \E v \in DOMAIN app_clients :
                           /\ \A b \in DOMAIN app_clients :
                                 app_clients[v].opened_at <= app_clients[b].opened_at
                           /\ DOMAIN app_clients' = DOMAIN app_clients \ {v}
                           /\ \A b \in DOMAIN app_clients' :
                                 app_clients'[b] = app_clients[b]
                   ELSE app_clients' = app_clients
                /\ (/\ DOMAIN app_clients = {"app_1", "app_2", "app_3"}
                    /\ max_app_connections = 2
                    /\ app_clients["app_2"].opened_at < app_clients["app_1"].opened_at
                    /\ app_clients["app_1"].opened_at < app_clients["app_3"].opened_at)
                   => DOMAIN app_clients' = {"app_1", "app_3"}]_vars

\* C10: app_2, app_1 and app_3 were opened in this order, at three different
\* times, with max_app_connections = 2; the task that has just inserted
\* app_3 still holds the write guard and its size check comes next.
C10_Witness ==
    /\ max_app_connections = 2
    /\ writer = 2
    /\ tasks[2].pc = "gc_evict"
    /\ tasks[2].app = "app_3"
    /\ app_clients = [a \in {"app_1", "app_2", "app_3"} |->
                         IF a = "app_2" THEN [id |-> 1, opened_at |-> 0]
                         ELSE IF a = "app_1" THEN [id |-> 2, opened_at |-> 1]
                         ELSE [id |-> 3, opened_at |-> 2]]

\* C11: every pool entry holds a connection for which, before the insertion,
\* authorize_signing_credentials succeeded on every provisioned cell of its
\* app with exactly the functions of allowed_fns[app], so every function
\* is_function_allowed accepts is authorized on every provisioned cell; when
\* an authorization call fails nothing is inserted, the write guard is
\* dropped and get_or_connect_app_client ends with the error.
C11_EntriesAuthorized ==
    /\ [](\A a \in DOMAIN app_clients : \A cell \in ProvisionedCells(a) :
             /\ [conn |-> app_clients[a].id, cell |-> cell,
                 functions |-> allowed_fns[a]] \in credentials
             /\ \A zf \in ZomeFns :
                   is_function_allowed(a, zf[1], zf[2]) =>
                      \E cr \in credentials :
                         /\ cr.conn = app_clients[a].id
                         /\ cr.cell = cell
                         /\ cr.functions.all \/ zf \in cr.functions.fns)
    /\ [][\A t \in Tasks :
             (/\ tasks[t].pc = "ca_authorize"
              /\ tasks'[t].pc \notin {"ca_authorize", "gc_evict"})
             => /\ app_clients' = app_clients
                /\ tasks[t].app \notin DOMAIN app_clients'
                /\ writer = t /\ writer' = 0
                /\ tasks'[t].conn = 0
                /\ tasks'[t].result # "Ok"
                /\ tasks[t].op = "get" =>
                      /\ tasks'[t].pc = "done"
                      /\ tasks'[t].result \in {"UpstreamUnavailable", "WsError",
                                               "OtherError"}]_vars

\* C11: the pool holds a connection of app_2, authorized on both of its
\* provisioned cells, and one of app_1, authorized for its restricted list.
C11_Witness ==
    /\ DOMAIN app_clients = {"app_1", "app_2"}
    /\ writer = 0
    /\ \A cell \in {1, 2} :
          [conn |-> app_clients["app_2"].id, cell |-> cell,
           functions |-> [all |-> TRUE, fns |-> {}]] \in credentials
    /\ [conn |-> app_clients["app_1"].id, cell |-> 1,
        functions |-> [all |-> FALSE, fns |-> {<<"zome_name", "fn_name">>}]]
          \in credentials

\* C12 as stated: no task holds a guard on the pool's clients map while it
\* awaits an upstream operation (an admin call, the application websocket
\* handshake, the function call).
C12_NoGuardAcrossUpstream ==
    \A t \in Tasks :
        tasks[t].pc \in {"resolve_list", "ca_attach", "ca_token",
                         "ca_handshake", "ca_authorize", "execute"}
           => writer # t

\* C13: a get_or_connect_app_client that finds the entry of its app under
\* the read guard returns the pooled connection in that step: it does not
\* take the write guard, makes no admin call, opens no connection and leaves
\* the pool unchanged, the opened_at of the entry included.
C13_ReadPathOnly ==
    [][\A t \in Tasks :
          (/\ tasks[t].pc = "gc_read"
           /\ tasks[t].app \in DOMAIN app_clients
           /\ tasks'[t] # tasks[t])
          => /\ tasks'[t].pc \in {"execute", "done"}
             /\ tasks'[t].conn = app_clients[tasks[t].app].id
             /\ tasks[t].op = "get" => tasks'[t].result = "Ok"
             /\ app_clients' = app_clients
             /\ writer = 0 /\ writer' = 0
             /\ nextId' = nextId
             /\ now' = now
             /\ cached_app_port' = cached_app_port
             /\ credentials' \subseteq credentials]_vars

\* C13: a call obtained the pooled connection of its app with its first
\* lookup while another task held a read guard on the pool from before the
\* call began.
C13_Witness ==
    /\ tasks[Observed].pc = "execute"
    /\ obs.nGet = 1
    /\ obs.nF = 0
    /\ obs.held
    /\ ext_read
    /\ tasks[Observed].app \in DOMAIN app_clients
    /\ tasks[Observed].conn = app_clients[tasks[Observed].app].id

\* C14: when a task is dropped at a suspension point, the guard it held is
\* released and the pool is left as it was, so no entry is removed or added
\* by the cancellation; in every state, cancellations included, the write
\* guard is held only by a task inside get_or_connect_app_client's critical
\* section, every pool entry holds a connection whose establishment and
\* authorization completed, and the pool respects max_app_connections
\* whenever the write guard is free.
C14_CancellationSafe ==
    /\ [](/\ writer # 0 =>
                tasks[writer].pc \in {"ca_port", "ca_attach", "ca_token",
                                      "ca_handshake", "ca_authorize", "gc_evict"}
          /\ \A a \in DOMAIN app_clients :
                /\ app_clients[a].id \in 1..(nextId - 1)
                /\ \A t \in Tasks :
                      tasks[t].pc \in {"ca_handshake", "ca_authorize"}
                         => tasks[t].conn # app_clients[a].id
                /\ \A cell \in ProvisionedCells(a) :
                      \E cr \in credentials :
                         cr.conn = app_clients[a].id /\ cr.cell = cell
          /\ writer = 0 =>
                Cardinality(DOMAIN app_clients) <= max_app_connections)
    /\ [][\A t \in Tasks :
             (tasks[t].pc \notin {"idle", "done"} /\ tasks'[t].pc = "idle")
             => /\ app_clients' = app_clients
                /\ writer' # t
                /\ writer # t => writer' = writer
                /\ cached_app_port' = cached_app_port
                /\ \A u \in Tasks \ {t} : tasks'[u] = tasks[u]]_vars

\* C14: the only operation started so far was dropped after its handshake,
\* while it held the write guard and waited for the authorization: the
\* guard is free again and the pool is empty.
C14_Witness ==
    /\ ops = MaxOps - 1
    /\ \A t \in Tasks : tasks[t].pc = "idle"
    /\ nextId = 2
    /\ writer = 0
    /\ app_clients = NoEntries
    /\ credentials = {}

\* C15: one AdminConn::call invokes f at most twice and makes at most one
\* attempt to open a new admin websocket, whatever f and the Conductor do;
\* the second invocation of f happens only after that one attempt.
C15_BoundedRetry ==
    \A c \in AdminCallers :
       /\ admin_calls[c].nF <= 2
       /\ admin_calls[c].nConnect <= 1
       /\ admin_calls[c].nF = 2 => admin_calls[c].nConnect = 1

\* C15: a call has ended after f failed at transport level on both the old
\* and the new websocket: two invocations, one reconnection.
C15_Witness ==
    \E c \in AdminCallers :
       /\ admin_calls[c].pc = "done"
       /\ admin_calls[c].first = "WebsocketError"
       /\ admin_calls[c].second = "WebsocketError"
       /\ admin_calls[c].nF = 2
       /\ admin_calls[c].nConnect = 1

\* C16: a call whose first f failed at transport level, and whose reconnect
\* failed or whose second f failed at transport level again, returns
\* UpstreamUnavailable.
C16_SecondFailureUnavailable ==
    \A c \in AdminCallers :
       (/\ admin_calls[c].pc = "done"
        /\ admin_calls[c].first = "WebsocketError"
        /\ \/ admin_calls[c].new_conn = 0
           \/ admin_calls[c].second = "WebsocketError")
       => admin_calls[c].result = UpstreamUnavailable

\* C17: when the first f returns a protocol error, the step that receives
\* it ends the call with that very error, after one invocation of f, with
\* no attempt to reconnect and with the slot and the set of websockets
\* untouched.
C17_ProtocolErrorPropagates ==
    [][\A c \in AdminCallers :
          (admin_calls[c].pc = "first" /\ admin_calls'[c].first \in ProtocolErrors)
          => /\ admin_calls'[c].pc = "done"
             /\ admin_calls'[c].result.inner = admin_calls'[c].first
             /\ admin_calls'[c].result.kind = "HolochainError"
             /\ admin_calls'[c].nF = 1
             /\ admin_calls'[c].nConnect = 0
             /\ connection_handle' = connection_handle
             /\ admin_opened' = admin_opened
             /\ admin_alive' = admin_alive]_vars

\* C17: a call has ended with the protocol error CellNotFound
C17_Witness ==
    \E c \in AdminCallers :
       /\ admin_calls[c].pc = "done"
       /\ admin_calls[c].first = "CellNotFound"
       /\ admin_calls[c].result = HolochainError("CellNotFound")
       /\ admin_calls[c].nF = 1
       /\ connection_handle = admin_calls[c].slot

\* C18: a call that begins after some call ended with a transport failure,
\* and during which the Conductor stays reachable (it runs from the start
\* of the call and no websocket is lost meanwhile), returns what f returned
\* on a usable websocket: a value or a protocol error, never a transport
\* failure.
C18_SelfHealing ==
    \A c \in AdminCallers :
       (/\ admin_calls[c].pc = "done"
        /\ admin_calls[c].after_failure
        /\ admin_calls[c].reachable)
       => ~IsTransportFailure(admin_calls[c].result)

\* C19: no two admin websockets are opened because of the failure of the
\* same connection: callers that detect the same disconnection open one
\* websocket between them.
C19_OneWebsocketPerDisconnection ==
    \A i, j \in 1..Len(admin_opened) :
       (i # j /\ admin_opened[i] # 0) => admin_opened[i] # admin_opened[j]

\* C20: whenever try_get_valid_app returns a descriptor, the descriptor has
\* the requested installed_app_id and a provisioned cell of the requested
\* DNA, its id is in allowed_app_ids, and it is the one and only element of
\* the searched list that has that id and such a cell.
C20_ResolvedAppIsValid ==
    (resolve.pc = "done" /\ resolve.err = "Ok")
    => /\ resolve.app_info.installed_app_id = resolve.coordinator_identifier
       /\ Provisioned(resolve.dna_hash) \in resolve.app_info.cell_info
       /\ resolve.app_info.installed_app_id \in allowed_app_ids
       /\ \E i \in 1..Len(resolve.searched) :
             /\ resolve.searched[i] = resolve.app_info
             /\ \A j \in 1..Len(resolve.searched) :
                   (/\ resolve.searched[j].installed_app_id
                          = resolve.coordinator_identifier
                    /\ Provisioned(resolve.dna_hash)
                          \in resolve.searched[j].cell_info)
                   => j = i

\* C20: a descriptor is returned from a list of two apps with the requested
\* id, of which only one has a provisioned cell of the requested DNA (the
\* other has a cloned cell of it), after the cache had to be refreshed.
C20_Witness ==
    /\ resolve.pc = "done"
    /\ resolve.err = "Ok"
    /\ resolve.dna_hash = "d1"
    /\ Len(resolve.searched) = 2
    /\ \A i \in 1..2 :
          resolve.searched[i].installed_app_id = resolve.coordinator_identifier
    /\ \E i \in 1..2 :
          resolve.searched[i].cell_info = {Provisioned("d2"), Cloned("d1")}
    /\ app_info_cache = resolve.searched
    /\ resolve_ops = MaxResolveOps - 1

\* C21: a call that found more than one matching app in the cached list
\* returns MultipleMatching.
C21_CachedDuplicatesRejected ==
    (resolve.pc = "done" /\ resolve.cached_matches > 1)
    => resolve.err = "MultipleMatching"

\* C21 amended: a call that found more than one matching app in the cached
\* list calls list_apps once and answers from the refreshed list:
\* MultipleMatching exactly when list_apps gave a list with more than one
\* matching app, NotInstalled when it failed, gave an empty list or a list
\* without a match.
C21_DuplicatesAfterRefresh ==
    (resolve.pc = "done" /\ resolve.cached_matches > 1)
    => LET n == Len(FilterApps(resolve.dna_hash,
                               resolve.coordinator_identifier,
                               resolve.new_installed_apps))
       IN /\ resolve.nListApps = 1
          /\ resolve.err = "MultipleMatching" <=> n > 1
          /\ n = 0 => resolve.err = "NotInstalled"

\* C21: the cached list and the refreshed list both hold two matching apps,
\* as in returns_error_if_multiple_apps_match.
C21_Witness ==
    /\ resolve.pc = "done"
    /\ resolve.cached_matches = 2
    /\ resolve.nListApps = 1
    /\ resolve.new_installed_apps = resolve.cache_before
    /\ resolve.err = "MultipleMatching"

C23_HitNeedsNoRefresh ==
    /\ []((resolve.nListApps > 0 \/ resolve.wrote \/ resolve.pc \in {"list_apps", "write"})
             => resolve.cached_matches # 1)
    /\ [][(resolve_ops' = resolve_ops - 1 /\ resolve'.cached_matches = 1)
          => /\ resolve'.pc = "done"
             /\ resolve'.nListApps = 0
             /\ ~resolve'.wrote
             /\ resolve'.searched = app_info_cache
             /\ app_info_cache' = app_info_cache]_vars

\* C23: the second call was answered from the cache while another holder
\* kept its read guard, as in installed_apps_results_are_cached_and_reused.
C23_Witness ==
    /\ resolve.pc = "done"
    /\ resolve.err = "Ok"
    /\ resolve.cached_matches = 1
    /\ resolve.nListApps = 0
    /\ resolve.held
    /\ cache_read
    /\ resolve_ops = MaxResolveOps - 2
    /\ app_info_cache = resolve.cache_before

\* C24: NotAllowed is returned only when the list searched last holds
\* exactly one matching app and the requested id is not in allowed_app_ids;
\* a call that finds no matching app in the list searched last, be it the
\* cached list (then list_apps gave nothing) or the refreshed one, returns
\* NotInstalled, for allowed and other ids alike.
C24_NotAllowedNeedsMatch ==
    resolve.pc = "done"
    => LET n == Len(FilterApps(resolve.dna_hash,
                               resolve.coordinator_identifier,
                               IF resolve.wrote THEN resolve.new_installed_apps
                               ELSE resolve.cache_before))
       IN /\ resolve.err = "NotAllowed"
             => /\ n = 1
                /\ resolve.coordinator_identifier \notin allowed_app_ids
          /\ n = 0 => resolve.err = "NotInstalled"

\* C24: an id outside allowed_app_ids was requested with a DNA of which no
\* app with that id has a provisioned cell, the refreshed list holding an
\* app with that id: the answer is NotInstalled, not NotAllowed.
C24_Witness ==
    /\ resolve.pc = "done"
    /\ resolve.coordinator_identifier \notin allowed_app_ids
    /\ resolve.wrote
    /\ \E i \in 1..Len(resolve.searched) :
          resolve.searched[i].installed_app_id = resolve.coordinator_identifier
    /\ resolve.err = "NotInstalled"


\* The request is well-formed and asks for a function of an app that is
\* allowed, allowed to call it, and installed once on the Conductor
C25_WellFormedAllowed(rq) ==
    /\ rq.dna_hash # "invalid"
    /\ \A x \in {rq.coordinator_identifier, rq.zome_name, rq.fn_name} :
          Chars(x) <= MAX_IDENTIFIER_CHARS
    /\ rq.payload.present =>
          /\ rq.payload.raw_len <= rq.payload_limit_bytes
          /\ rq.payload.base64
          /\ rq.payload.json
    /\ rq.coordinator_identifier \in allowed_app_ids
    /\ is_function_allowed(rq.coordinator_identifier, rq.zome_name, rq.fn_name)
    /\ Len(FilterApps(rq.dna_hash, rq.coordinator_identifier, conductor_apps)) = 1

\* C25 as stated: a well-formed request for an allowed app and function that
\* finds the Conductor unreachable from its arrival to its end is answered
\* with 502 "Could not connect to Holochain".
C25_UnreachableIs502 ==
    (/\ request.pc = "done"
     /\ request.down
     /\ C25_WellFormedAllowed(request))
    => request.response =
          [status |-> 502, body |-> <<"Could not connect to Holochain">>]

C26_PathFails(rq) ==
    \/ rq.dna_hash = "invalid"
    \/ \E x \in {rq.coordinator_identifier, rq.zome_name, rq.fn_name} :
          Chars(x) > MAX_IDENTIFIER_CHARS

C26_SizeFails(rq) ==
    rq.payload.present /\ rq.payload.raw_len > rq.payload_limit_bytes

C26_TranscodeFails(rq) ==
    rq.payload.present /\ ~(rq.payload.base64 /\ rq.payload.json)

C26_IsPrefix(s, t) == Len(s) <= Len(t) /\ \A i \in 1..Len(s) : s[i] = t[i]

C27_StatusOfEachError ==
    LET e == request.error
        r == request.response
    IN (request.pc = "done" /\ e # NoError) =>
          /\ r.status =
                IF e.kind = "RequestMalformed" THEN 400
                ELSE IF e.kind = "UnauthorizedFunction" THEN 403
                ELSE IF e = AppSelection("NotAllowed") THEN 403
                ELSE IF e = AppSelection("NotInstalled") THEN 404
                ELSE IF e.kind = "UpstreamUnavailable" THEN 502
                ELSE 500
          /\ r.status = 500 =>
                r.body = IF e = HolochainError("Guest")
                         THEN << "Guest" >>
                         ELSE << "Something went wrong" >>

\* C28: the limit is compared with the length of the payload parameter as
\* received, still encoded: a longer payload ends the request at the size
\* check with 400 "Payload exceeds <limit> bytes", a payload of at most
\* payload_limit_bytes bytes passes the size check.
C28_RawLengthLimit ==
    LET rq == request
    IN (rq.payload.present /\ Len(rq.ran) >= 2) =>
          IF rq.payload.raw_len > rq.payload_limit_bytes
          THEN /\ rq.pc = "done"
               /\ rq.ran = << "path", "size" >>
               /\ rq.response =
                     [status |-> 400,
                      body |-> << "Request is malformed",
                                  PayloadExceeds(rq.payload_limit_bytes) >>]
          ELSE ~(rq.pc = "done" /\ rq.ran = << "path", "size" >>)

\* A payload of 12 encoded bytes, 9 once decoded, was rejected by a limit of
\* 10 bytes
C28_Witness ==
    /\ request.pc = "done"
    /\ request.payload.raw_len = 12
    /\ request.payload.base64
    /\ request.payload_limit_bytes = 10
    /\ request.ran = << "path", "size" >>
    /\ request.response.status = 400


\* C29: a Configuration that try_new returns has an allowed_fns entry for
\* every id of its allowed_app_ids; when some id of the allowed_app_ids
\* argument has no entry in the allowed_fns argument, try_new returns an
\* error and no Configuration.
C29_EveryAllowedAppHasFns ==
    LET args == configuration.args
        res == configuration.result
        named == {s \in {"app_1", "app_2", "app_x"} :
                     \E i \in DOMAIN args.allowed_app_ids :
                        args.allowed_app_ids[i] \in
                           (IF s = "app_2" THEN {"app_2", " app_2 "} ELSE {s})}
    IN configuration.pc \in {"parsed", "asked"} =>
          /\ res.ok =>
                /\ res.allowed_app_ids = named
                /\ \A id \in res.allowed_app_ids : id \in DOMAIN res.allowed_fns
          /\ (\E id \in named : id \notin DOMAIN args.allowed_fns) =>
                (~res.ok /\ res.err # "none")

\* try_new has refused "app_1, app_2 " because allowed_fns has no entry for
\* app_2, every other argument being valid
C29_Witness ==
    /\ configuration.pc = "parsed"
    /\ configuration.args.allowed_app_ids = << "app_1", " app_2 " >>
    /\ DOMAIN configuration.args.allowed_fns = {"app_1"}
    /\ configuration.args.payload_limit_bytes = "10"
    /\ configuration.args.max_app_connections = ""
    /\ configuration.args.zome_call_timeout = ""
    /\ ~configuration.result.ok
    /\ configuration.result.err = "Other"

\* C30: is_function_allowed(app, module, fn) is false when the app has no
\* allowed_fns entry, true when the entry is All, and otherwise true exactly
\* when (module, fn) is in the listed set.
C30_IsFunctionAllowed ==
    LET q == configuration.query
        fns == configuration.result.allowed_fns
    IN configuration.pc = "asked" =>
          /\ q.app_id \notin DOMAIN fns => configuration.answer = FALSE
          /\ (q.app_id \in DOMAIN fns /\ fns[q.app_id].all) =>
                configuration.answer = TRUE
          /\ (q.app_id \in DOMAIN fns /\ ~fns[q.app_id].all) =>
                (configuration.answer <=>
                    <<q.zome_name, q.fn_name>> \in fns[q.app_id].fns)

\* A function outside the list of a restricted app was refused while
\* another app allows every function
C30_Witness ==
    /\ configuration.pc = "asked"
    /\ configuration.query =
          [app_id |-> "app_1", zome_name |-> "zome_name", fn_name |-> "unauth_fn"]
    /\ DOMAIN configuration.result.allowed_fns = {"app_1", "app_2"}
    /\ ~configuration.result.allowed_fns["app_1"].all
    /\ configuration.result.allowed_fns["app_1"].fns # {}
    /\ configuration.result.allowed_fns["app_2"].all
    /\ configuration.answer = FALSE


\* C31 as stated: every Configuration try_new returns has a positive
\* payload_limit_bytes, a positive max_app_connections and a positive
\* zome_call_timeout.
C31_PositiveNumbers ==
    (configuration.pc \in {"parsed", "asked"} /\ configuration.result.ok) =>
        /\ configuration.result.payload_limit_bytes > 0
        /\ configuration.result.max_app_connections > 0
        /\ configuration.result.zome_call_timeout > 0

\* C34: when the app websocket handshake of attempt_connect_app_ws fails,
\* cached_app_port is cleared, get_or_connect_app_client ends with
\* UpstreamUnavailable (AppConnPool::call then starts its next iteration or
\* falls through with UpstreamUnavailable), the write guard is dropped and
\* the clients map is unchanged: no entry is inserted for the app.
C34_FailedHandshake ==
    [][\A t \in Tasks :
          (/\ tasks[t].pc = "ca_handshake"
           /\ tasks'[t].pc \notin {"ca_handshake", "ca_authorize"})
          => /\ cached_app_port' = 0
             /\ app_clients' = app_clients
             /\ tasks[t].app \notin DOMAIN app_clients'
             /\ writer = t /\ writer' = 0
             /\ tasks'[t].conn = 0
             /\ tasks[t].op = "get" =>
                   /\ tasks'[t].pc = "done"
                   /\ tasks'[t].result = "UpstreamUnavailable"
             /\ tasks[t].op = "http" =>
                   /\ tasks'[t].attempt = tasks[t].attempt + 1
                   /\ \/ tasks'[t].pc = "gc_read"
                      \/ /\ tasks'[t].pc = "done"
                         /\ tasks'[t].result = "UpstreamUnavailable"]_vars

\* C34: the pool holds a connection made through a cached port; after a
\* restart of the Conductor a second get_or_connect_app_client reached the
\* handshake on that port, failed with UpstreamUnavailable and cleared it.
C34_Witness ==
    /\ tasks[1] = Idle
    /\ tasks[2].op = "get"
    /\ tasks[2].pc = "done"
    /\ tasks[2].result = "UpstreamUnavailable"
    /\ up
    /\ cached_app_port = 0
    /\ app_clients # NoEntries
    /\ tasks[2].app \notin DOMAIN app_clients

\* C35 as stated: after a failed attempt within AppConnPool::call
\* (UpstreamUnavailable from get_or_connect_app_client, or a transport error
\* of execute), the next attempt does not use the cached app port: when it
\* reaches get_app_port, with no other task having touched the pool, the
\* cache is empty and the port is resolved through list_app_interfaces.
C35_NextAttemptResolvesAfresh ==
    [][\A t \in HttpTasks :
          (/\ tasks[t].pc = "ca_port"
           /\ tasks[t].attempt >= 1
           /\ tasks'[t].pc # "ca_port"
           /\ \A u \in Tasks \ {t} : tasks[u] = Idle)
          => cached_app_port = 0]_vars

\* The order of the app ids of the pool, as String's Ord gives it
C36_AppRank(a) == IF a = "app_1" THEN 1 ELSE IF a = "app_2" THEN 2 ELSE 3

\* C36 as stated: the eviction removes, among the entries with the smallest
\* opened_at, the one with the smallest app id.
C36_EvictionBySmallestId ==
    [][\A t \in Tasks :
          (/\ tasks[t].pc = "gc_evict"
           /\ tasks'[t].pc # "gc_evict"
           /\ NeedsEviction(app_clients, max_app_connections))
          => \E v \in OldestApps(app_clients) :
                /\ \A b \in OldestApps(app_clients) :
                      C36_AppRank(v) <= C36_AppRank(b)
                /\ app_clients' = MapRemove(app_clients, v)]_vars

\* C38 as stated: the removal that follows a transport error of execute
\* removes nothing but the connection on which the error occurred: an entry
\* of the same app that holds another connection stays in the pool.
C38_RemovesOnlyFailedConnection ==
    [][\A t \in HttpTasks :
          (/\ tasks[t].pc = "remove"
           /\ tasks'[t].pc # "remove"
           /\ tasks[t].app \in DOMAIN app_clients
           /\ app_clients[tasks[t].app].id # tasks[t].conn)
          => app_clients' = app_clients]_vars

\* C32: over a run of connection establishments on one pool, for any apps
\* and any app interfaces the Conductor starts with, attach_app_interface
\* succeeds at most once; as long as every establishment has succeeded,
\* list_app_interfaces is called at most once, attach_app_interface not at
\* all when an interface qualified at that listing, and every establishment
\* after the first takes the cached port without an admin call for it.
C32_OneInterface ==
    /\ [](connect.pc # "off" =>
            /\ connect.nAttach <= 1
            /\ connect.nFailed = 0 =>
                  /\ connect.nList <= 1
                  /\ connect.qualified => connect.nAttach = 0)
    /\ [][(/\ connect.pc = "port"
           /\ connect'.pc # "port"
           /\ connect.nOk >= 1
           /\ connect.nFailed = 0)
          => /\ cached_app_port # 0
             /\ connect'.pc = "connect"
             /\ connect'.port = cached_app_port
             /\ cached_app_port' = cached_app_port
             /\ app_interfaces' = app_interfaces
             /\ connect'.nList = connect.nList]_vars

\* C32: three establishments for two apps succeeded on a Conductor whose
\* only interface was reserved for another origin: one interface was
\* attached and the list was read once.
C32_Witness ==
    /\ connect.pc = "idle"
    /\ connect.nOk = MaxPortOps
    /\ connect.nFailed = 0
    /\ connect.connected = {"app_1", "app_2"}
    /\ connect.nAttach = 1
    /\ connect.nList = 1
    /\ Len(app_interfaces) = 2
    /\ app_interfaces[1].allowed_origins = "other"

\* C39 as stated: every handshake of an app websocket goes to the port of
\* an app interface that allows the origin hc-http-gw and whose
\* installed_app_id filter is unset or names the app of the handshake.
C39_HandshakeOnQualifyingInterface ==
    connect.pc # "off" =>
       \A h \in connect.handshakes :
          /\ h[2] \in 1..Len(app_interfaces)
          /\ Qualifies(app_interfaces[h[2]], h[1])

\* The nesting depth of a value: arrays and objects count, empty ones too
RECURSIVE C33_Depth(_)
C33_Depth(v) ==
    LET inner(i) == IF v.t = "obj" THEN v.items[i].items[2] ELSE v.items[i]
        RECURSIVE Deepest(_)
        Deepest(i) == IF i > Len(v.items) THEN 0
                      ELSE LET d == C33_Depth(inner(i))
                               e == Deepest(i + 1)
                           IN IF d > e THEN d ELSE e
    IN IF v.t \in {"arr", "obj"} THEN 1 + Deepest(1) ELSE 0

\* The payload is base64 of the JSON text of the value v and fits the
\* default payload limit
C33_Encoded(v) ==
    /\ transcode.pc \in {"inbound", "outbound"}
    /\ transcode.present
    /\ v.t # "none"
    /\ transcode.v = v
    /\ transcode.payload = Base64Encode(to_string(v))
    /\ Len(transcode.payload) <= DEFAULT_PAYLOAD_LIMIT_BYTES

\* C33 as stated: for every JSON value whose encoding fits the payload
\* limit, decoding the inbound transcoding of its base64 JSON text gives the
\* value again, and the outbound transcoding of its wire encoding gives its
\* JSON text; an absent payload gives the encoding of the unit value.
C33_RoundTripAny ==
    /\ (transcode.pc \in {"inbound", "outbound"} /\ ~transcode.present) =>
          transcode.hsb.ok /\ transcode.hsb.bytes = << 192 >>
    /\ \A v \in JsonValues :
          C33_Encoded(v) =>
             /\ transcode.hsb.ok
             /\ transcode.decoded.ok
             /\ transcode.decoded.v = v
             /\ transcode.pc = "outbound" =>
                   transcode.json.ok /\ transcode.json.text = to_string(v)

\* C33: the same for every JSON value nested less deeply than the recursion
\* limit of the JSON parser; a value nested deeper is refused as an invalid
\* JSON value.  The wire encoding of the unit value is the single byte nil.
C33_RoundTrip ==
    /\ (transcode.pc \in {"inbound", "outbound"} /\ ~transcode.present) =>
          transcode.hsb.ok /\ transcode.hsb.bytes = << 192 >>
    /\ \A v \in JsonValues :
          C33_Encoded(v) =>
             IF C33_Depth(v) < MaxNesting
             THEN /\ transcode.hsb.ok
                  /\ transcode.decoded.ok
                  /\ transcode.decoded.v = v
                  /\ transcode.pc = "outbound" =>
                        transcode.json.ok /\ transcode.json.text = to_string(v)
             ELSE /\ ~transcode.hsb.ok
                  /\ transcode.hsb.err = "Invalid JSON value"

\* C33: an object with a string and a nested array has gone in and come out
C33_Witness ==
    /\ transcode.pc = "outbound"
    /\ C33_Encoded(transcode.v)
    /\ transcode.v.t = "obj"
    /\ Len(transcode.v.items) = 2
    /\ transcode.v.items[1].items[2] = JStr(<< 98, 63, 63 >>)
    /\ transcode.decoded.v = transcode.v
    /\ transcode.json.ok
    /\ Len(transcode.json.text) > Len(transcode.hsb.bytes)

\* C37 as stated: one attempt_connect_app_ws(app, admin_ws, 1) of the
\* earlier pool performs at most retries + 1 = 2 handshakes.
C37_BoundedHandshakes ==
    connect.pc # "off" => connect.tries <= 1 + 1


\* C40: the gateway is deadlock-free.  On a Conductor whose operations all
\* return, with tasks that are polled and guards that are granted, every
\* request and every pool operation that has started ends with a result,
\* up to the connection identifiers of the model running out.
C40_Exhausted == nextId > MaxConns

====
